---- MODULE Spec2Model ----
(***************************************************************************)
(* The concert aggregation service (backend/aggregation_service/main.py):  *)
(* grouping of archive recordings into concerts, the in-memory browse      *)
(* cache, the listing endpoint and the detail endpoint; the download       *)
(* service (backend/download_service/main.py) and the background task      *)
(* manager (shared/background_tasks.py), each as a run of its own.         *)
(*                                                                         *)
(* Strings are sequences of tokens (a token is a run of characters that    *)
(* holds no separator), so that split, join and equality are computed.     *)
(* A datetime is a number of seconds since the model's day 0, which is     *)
(* 2026-10-01 00:00:00.                                                    *)
(***************************************************************************)
EXTENDS Integers, Sequences, FiniteSets, TLC

VARIABLES
    g_pc,       \* grouping run: "in" before group_recordings_by_concert, "done" after
    g_items,    \* the input of the grouping run (List[ArchiveItem])
    g_concerts, \* its output (the concerts list)
    browse_cache, \* the dict browse_cache, in insertion order: entries [key, data, timestamp, raw_items]
    now,        \* datetime.utcnow(), in seconds
    inflight,   \* the requests suspended at their `await client.get(...)`, oldest first
    last,       \* the request that completed last, with its response
    started,    \* requests started so far
    ticks,      \* clock steps taken so far
    cleared,    \* clear_cache has returned and no request has arrived since
    p_pc,       \* pagination run: "in" before lines 328-339, "done" after
    p_req,      \* its input: the length of the sorted list, page and per_page
    p_resp,     \* its output: the returned page
    f_pc,       \* sort, fingerprint, scan or listing run: its name before it, "done" after
    f_in,       \* its input
    f_out,      \* its output
    d_rows,     \* download service: the downloads table, in insertion order
    d_reqs,     \* its handlers suspended at an await on the database
    d_tasks,    \* its process_download tasks, in creation order
    d_last,     \* the response of its handler that returned last
    d_set,      \* the rows in which cancel_download has committed 'cancelled'
    d_count,    \* its requests taken so far: [starts, cancels]
    t_tasks,    \* task manager: self.tasks, task_<i> at position i + 1
    t_queue,    \* self.task_queue, oldest first
    t_workers,  \* the worker threads: what each is at, and its task
    t_last,     \* the cancel_task call that returned last
    t_true,     \* the tasks for which cancel_task has returned True
    t_ran,      \* the tasks whose function a worker has called
    t_count     \* cancel_task calls so far

vars == <<g_pc, g_items, g_concerts, browse_cache, now, inflight, last, started, ticks, cleared,
          p_pc, p_req, p_resp, f_pc, f_in, f_out,
          d_rows, d_reqs, d_tasks, d_last, d_set, d_count,
          t_tasks, t_queue, t_workers, t_last, t_true, t_ran, t_count>>
pvars == <<p_pc, p_req, p_resp>>
fvars == <<f_pc, f_in, f_out>>
svars == <<browse_cache, now, inflight, last, started, ticks, cleared>>
gvars == <<g_pc, g_items, g_concerts>>
dvars == <<d_rows, d_reqs, d_tasks, d_last, d_set, d_count>>
tvars == <<t_tasks, t_queue, t_workers, t_last, t_true, t_ran, t_count>>

\* the download service is not part of the run
DownloadsOff ==
    /\ d_rows = <<>> /\ d_reqs = <<>> /\ d_tasks = <<>> /\ d_last = <<>>
    /\ d_set = {} /\ d_count = <<>>

\* the task manager is not part of the run
TasksOff ==
    /\ t_tasks = <<>> /\ t_queue = <<>> /\ t_workers = <<>> /\ t_last = <<>>
    /\ t_true = {} /\ t_ran = {} /\ t_count = 0

---------------------------------------------------------------------------
(* Values *)

\* Python's None for an Optional[str] field
None == <<"None">>
\* Python's None for the Optional[datetime] field
NoDate == -1
\* the falsy test of `x or default` and `if x` on an optional string
Truthy(s) == s # None /\ s # <<>>

UnknownArtist == <<"Unknown Artist">>
UnknownVenue == <<"Unknown Venue">>
Pipe == "|"

SecondsPerDay == 86400

---------------------------------------------------------------------------
(* Dates: strftime("%Y-%m-%d") and strptime(..., "%Y-%m-%d") *)

\* the days the model has names for: 2026-10-01 .. 2026-11-30
ModelDays == 0..60

Pad2(n) == IF n < 10 THEN "0" \o ToString(n) ELSE ToString(n)

\* %Y-%m-%d of a day number: zero-padded month and day
DayName(d) == IF d <= 30 THEN "2026-10-" \o Pad2(d + 1) ELSE "2026-11-" \o Pad2(d - 30)

\* the same day written without zero padding, which strptime also accepts
LooseDayName(d) == IF d <= 30 THEN "2026-10-" \o ToString(d + 1) ELSE "2026-11-" \o ToString(d - 30)

\* the names of the model's days, computed once
DayNames == [d \in ModelDays |-> DayName(d)]
LooseDayNames == [d \in ModelDays |-> LooseDayName(d)]

\* item.date.strftime("%Y-%m-%d")
Strftime(dt) == <<DayNames[dt \div SecondsPerDay]>>

ValueError == -2

\* datetime.strptime(s, "%Y-%m-%d"): midnight of the day, or ValueError
Strptime(s) ==
    IF Len(s) = 1 /\ \E d \in ModelDays : s[1] = DayNames[d] \/ s[1] = LooseDayNames[d]
    THEN (CHOOSE d \in ModelDays : s[1] = DayNames[d] \/ s[1] = LooseDayNames[d]) * SecondsPerDay
    ELSE ValueError

---------------------------------------------------------------------------
(* str.split *)

RECURSIVE SplitAcc(_, _, _, _)
SplitAcc(s, sep, i, cur) ==
    IF i > Len(s) THEN <<cur>>
    ELSE IF s[i] = sep THEN <<cur>> \o SplitAcc(s, sep, i + 1, <<>>)
    ELSE SplitAcc(s, sep, i + 1, Append(cur, s[i]))

\* key.split("|")
Split(s, sep) == SplitAcc(s, sep, 1, <<>>)

---------------------------------------------------------------------------
(* group_recordings_by_concert *)

\* a mutant of extract_concert_key: a usable venue is part of the artist segment
extract_concert_key_venue(item) ==
    LET artist == IF Truthy(item.artist) THEN item.artist ELSE UnknownArtist
        venue == IF Truthy(item.venue) THEN <<" @ ">> \o item.venue ELSE <<>>
        date_str == IF item.date # NoDate THEN Strftime(item.date) ELSE <<"unknown">>
    IN  artist \o venue \o <<Pipe>> \o date_str

\* extract_concert_key(item)
extract_concert_key(item) ==
    LET artist == IF Truthy(item.artist) THEN item.artist ELSE UnknownArtist
        date_str == IF item.date # NoDate THEN Strftime(item.date) ELSE <<"unknown">>
    IN  artist \o <<Pipe>> \o date_str

\* a mutant of BucketAppend: the bucket is assigned, not appended to
BucketAssign(groups, key, item) ==
    IF \E i \in 1..Len(groups) : groups[i].key = key
    THEN LET i == CHOOSE j \in 1..Len(groups) : groups[j].key = key
         IN  [groups EXCEPT ![i].recordings = <<item>>]
    ELSE Append(groups, [key |-> key, recordings |-> <<item>>])

\* concert_groups[key].append(item) on a defaultdict(list): a new key goes last
BucketAppend(groups, key, item) ==
    IF \E i \in 1..Len(groups) : groups[i].key = key
    THEN LET i == CHOOSE j \in 1..Len(groups) : groups[j].key = key
         IN  [groups EXCEPT ![i].recordings = Append(@, item)]
    ELSE Append(groups, [key |-> key, recordings |-> <<item>>])

RECURSIVE BucketAll(_, _, _)
BucketAll(items, i, groups) ==
    IF i > Len(items) THEN groups
    ELSE BucketAll(items, i + 1, BucketAppend(groups, extract_concert_key(items[i]), items[i]))

\* the loop of lines 78-80: the buckets in first-seen order
concert_groups(items) == BucketAll(items, 1, <<>>)

\* the venue test of lines 106 and 116
UsableVenue(v) == Truthy(v) /\ v # UnknownVenue

\* venue_counts[v] = venue_counts.get(v, 0) + 1 on an insertion-ordered dict
CountVenue(counts, v) ==
    IF \E i \in 1..Len(counts) : counts[i].venue = v
    THEN LET i == CHOOSE j \in 1..Len(counts) : counts[j].venue = v
         IN  [counts EXCEPT ![i].n = @ + 1]
    ELSE Append(counts, [venue |-> v, n |-> 1])

RECURSIVE VenueCountsAcc(_, _, _)
VenueCountsAcc(recordings, i, counts) ==
    IF i > Len(recordings) THEN counts
    ELSE VenueCountsAcc(recordings, i + 1,
            IF UsableVenue(recordings[i].venue)
            THEN CountVenue(counts, recordings[i].venue) ELSE counts)

\* lines 104-107
venue_counts(recordings) == VenueCountsAcc(recordings, 1, <<>>)

\* a mutant of MaxVenue: the last venue that attains the maximum
MaxVenueLast(counts) ==
    counts[CHOOSE i \in 1..Len(counts) :
              /\ \A j \in 1..Len(counts) : counts[j].n <= counts[i].n
              /\ \A j \in (i + 1)..Len(counts) : counts[j].n < counts[i].n].venue

\* max(venue_counts, key=venue_counts.get): the first key, in iteration
\* order, whose count is the maximum
MaxVenue(counts) ==
    counts[CHOOSE i \in 1..Len(counts) :
              /\ \A j \in 1..Len(counts) : counts[j].n <= counts[i].n
              /\ \A j \in 1..(i - 1) : counts[j].n < counts[i].n].venue

\* lines 109-118: the most common venue, else the first usable one, else None
ResolveVenue(recordings) ==
    LET counts == venue_counts(recordings)
    IN  IF counts # <<>> THEN MaxVenue(counts)
        ELSE IF \E i \in 1..Len(recordings) : UsableVenue(recordings[i].venue)
        THEN recordings[CHOOSE i \in 1..Len(recordings) :
                /\ UsableVenue(recordings[i].venue)
                /\ \A j \in 1..(i - 1) : ~UsableVenue(recordings[j].venue)].venue
        ELSE None

\* a mutant of KeyEmits: the date segment is not parsed
KeyEmitsUnparsed(key) == Len(Split(key, Pipe)) = 2

\* lines 89-98: whether a bucket survives to emission
KeyEmits(key) ==
    LET parts == Split(key, Pipe)
    IN  Len(parts) = 2 /\ Strptime(parts[2]) # ValueError

\* a mutant of Sum: the figure of the base recording, recordings[0]
SumFirst(ns) == IF ns = <<>> THEN 0 ELSE ns[1]

\* sum(...) over a generator of ints
RECURSIVE Sum(_)
Sum(ns) == IF ns = <<>> THEN 0 ELSE ns[1] + Sum(Tail(ns))

\* a mutant of BaseRecording: the recording appended last
BaseRecordingLast(recordings) == recordings[Len(recordings)]

\* line 101: base_recording = recordings[0]
BaseRecording(recordings) == recordings[1]

\* lines 120-126: "-".join of the artist, the venue and the location that
\* are there
Title(artist, venue, location) ==
    artist \o (IF Truthy(venue) THEN <<"-">> \o venue ELSE <<>>)
           \o (IF Truthy(location) THEN <<"-">> \o location ELSE <<>>)

\* lines 100-169: the concert built from one surviving bucket
MakeConcert(key, recordings) ==
    LET parts == Split(key, Pipe)
        base_recording == BaseRecording(recordings)
    IN  [ concert_key |-> key,
          artist |-> parts[1],
          date |-> Strptime(parts[2]),
          venue |-> ResolveVenue(recordings),
          location |-> base_recording.location,
          title |-> Title(parts[1], ResolveVenue(recordings), base_recording.location),
          description |-> IF Truthy(base_recording.description)
                          THEN base_recording.description
                          ELSE <<"Live performance by ">> \o parts[1],
          source |-> IF Truthy(base_recording.source) THEN base_recording.source
                     ELSE <<"Multiple sources available">>,
          taper |-> IF Truthy(base_recording.taper) THEN base_recording.taper ELSE None,
          lineage |-> IF Truthy(base_recording.lineage) THEN base_recording.lineage
                      ELSE None,
          total_recordings |-> Len(recordings),
          total_tracks |-> Sum([i \in 1..Len(recordings) |-> recordings[i].total_tracks]),
          total_size |-> Sum([i \in 1..Len(recordings) |-> recordings[i].total_size]),
          total_downloads |-> Sum([i \in 1..Len(recordings) |-> recordings[i].downloads]),
          recordings |-> [i \in 1..Len(recordings) |-> [id |-> recordings[i].identifier]] ]

RECURSIVE EmitAcc(_, _)
EmitAcc(groups, i) ==
    IF i > Len(groups) THEN <<>>
    ELSE (IF KeyEmits(groups[i].key)
          THEN <<MakeConcert(groups[i].key, groups[i].recordings)>> ELSE <<>>)
         \o EmitAcc(groups, i + 1)

\* group_recordings_by_concert(items)
group_recordings_by_concert(items) == EmitAcc(concert_groups(items), 1)

---------------------------------------------------------------------------
(* The browse cache *)

CACHE_DURATION == 300

\* the names of the params dict of lines 237-246, in insertion order
ParamNames ==
    <<"query", "date_range", "artist", "venue", "page", "per_page", "sort_by", "sort_order">>

\* the params whose values are ints
IntParams == { "page", "per_page" }

\* a value of the dict with its Python type
PyValue(p, name) ==
    IF name \in IntParams THEN [ t |-> "int", v |-> p[name] ]
    ELSE IF p[name] = None THEN [ t |-> "none", v |-> 0 ]
    ELSE [ t |-> "str", v |-> p[name] ]

\* params.items(): the (name, value) pairs in insertion order
ParamItems(p) == [i \in 1..Len(ParamNames) |-> <<ParamNames[i], PyValue(p, ParamNames[i])>>]

\* line 247: {k: v for k, v in params.items() if v is not None}
DropNone(items) == SelectSeq(items, LAMBDA nv : nv[2].t # "none")

\* the names in code point order
NameOrder ==
    <<"artist", "date_range", "page", "per_page", "query", "sort_by", "sort_order", "venue">>

NameRank(name) == CHOOSE i \in 1..Len(NameOrder) : NameOrder[i] = name

RECURSIVE InsertItem(_, _)
InsertItem(sorted, nv) ==
    IF sorted = <<>> THEN <<nv>>
    ELSE IF NameRank(nv[1]) < NameRank(sorted[1][1]) THEN <<nv>> \o sorted
    ELSE <<sorted[1]>> \o InsertItem(Tail(sorted), nv)

RECURSIVE SortItemsAcc(_, _, _)
SortItemsAcc(items, i, sorted) ==
    IF i > Len(items) THEN sorted
    ELSE SortItemsAcc(items, i + 1, InsertItem(sorted, items[i]))

\* a mutant of SortedItems: the pairs are left in the order of the dict
UnsortedItems(items) == items

\* sorted(params.items()): the names of a dict are unique, so the name decides
SortedItems(items) == SortItemsAcc(items, 1, <<>>)

\* json.dumps escapes the quote and the backslash of a string
RECURSIVE JsonEscape(_)
JsonEscape(v) ==
    IF v = <<>> THEN <<>>
    ELSE (IF v[1] = "\"" THEN <<"\\", "\"">>
          ELSE IF v[1] = "\\" THEN <<"\\", "\\">>
          ELSE <<v[1]>>) \o JsonEscape(Tail(v))

\* json.dumps of a value: a string is escaped and quoted, an int is its digits
JsonStr(v) == <<"\"">> \o JsonEscape(v) \o <<"\"">>
JsonInt(n) == <<ToString(n)>>
JsonValue(x) == IF x.t = "int" THEN JsonInt(x.v) ELSE JsonStr(x.v)

\* json.dumps of a (name, value) tuple: a two-element list
JsonPair(nv) == <<"[">> \o JsonStr(<<nv[1]>>) \o <<", ">> \o JsonValue(nv[2]) \o <<"]">>

RECURSIVE JsonPairs(_, _)
JsonPairs(items, i) ==
    IF i > Len(items) THEN <<>>
    ELSE (IF i > 1 THEN <<", ">> ELSE <<>>) \o JsonPair(items[i]) \o JsonPairs(items, i + 1)

\* json.dumps of a list of tuples
json_dumps(items) == <<"[">> \o JsonPairs(items, 1) \o <<"]">>

\* get_cache_key(params) on the items of the dict
CacheKeyOf(items) == json_dumps(SortedItems(items))

\* get_cache_key(params) after line 247 dropped the None values
get_cache_key(p) == CacheKeyOf(DropNone(ParamItems(p)))

\* the position of the key in the dict, 0 when it is not there
CacheIndex(cache, key) ==
    IF \E i \in 1..Len(cache) : cache[i].key = key
    THEN CHOOSE i \in 1..Len(cache) : cache[i].key = key
    ELSE 0

\* a mutant of is_cache_valid: an entry is valid up to and including the TTL
is_cache_valid_inclusive(cache, i, t) ==
    IF i = 0 THEN FALSE ELSE (t - cache[i].timestamp) <= CACHE_DURATION

\* is_cache_valid(browse_cache.get(key)) evaluated at time t
is_cache_valid(cache, i, t) ==
    IF i = 0 THEN FALSE ELSE (t - cache[i].timestamp) < CACHE_DURATION

\* a mutant of CacheStore: an existing key keeps its entry (setdefault)
CacheStoreKeepFirst(cache, entry) ==
    IF CacheIndex(cache, entry.key) = 0 THEN Append(cache, entry) ELSE cache

\* a mutant of CacheStore: an existing entry is updated field by field, and
\* raw_items is left out
CacheStoreFields(cache, entry) ==
    LET i == CacheIndex(cache, entry.key)
    IN  IF i = 0 THEN Append(cache, entry)
        ELSE [cache EXCEPT ![i].data = entry.data, ![i].timestamp = entry.timestamp]

\* browse_cache[cache_key] = {...}: an existing key keeps its place
CacheStore(cache, entry) ==
    LET i == CacheIndex(cache, entry.key)
    IN  IF i = 0 THEN Append(cache, entry) ELSE [cache EXCEPT ![i] = entry]

\* a mutant of cleanup_cache: an entry goes a second before the TTL
cleanup_cache_early(cache, t) ==
    SelectSeq(cache, LAMBDA e : ~((t - e.timestamp) >= CACHE_DURATION - 1))

\* a mutant of cleanup_cache: an entry goes only when older than the TTL
cleanup_cache_late(cache, t) ==
    SelectSeq(cache, LAMBDA e : ~((t - e.timestamp) > CACHE_DURATION))

\* cleanup_cache() at time t
cleanup_cache(cache, t) ==
    SelectSeq(cache, LAMBDA e : ~((t - e.timestamp) >= CACHE_DURATION))

---------------------------------------------------------------------------
(* Date filter, sort and pagination of the listing *)

\* lines 276-285: the days of a date_range token
RangeDays(date_range) ==
    IF date_range = <<"7d">> THEN 7
    ELSE IF date_range = <<"30d">> THEN 30
    ELSE IF date_range = <<"90d">> THEN 90
    ELSE IF date_range = <<"1y">> THEN 365
    ELSE 30

\* lines 287-301: the concerts whose date lies in [t - range, t]
FilterByConcertDate(concerts, date_range, t) ==
    SelectSeq(concerts, LAMBDA c :
        t - RangeDays(date_range) * SecondsPerDay <= c.date /\ c.date <= t)

\* str.lower() of the tokens the model uses
LowerTok(tok) ==
    CASE tok = "Phish" -> "phish"
      [] tok = "AC" -> "ac"
      [] tok = "DC" -> "dc"
      [] tok = "MSG" -> "msg"
      [] tok = "Fox" -> "fox"
      [] tok = "Unknown Artist" -> "unknown artist"
      [] tok = "Unknown Venue" -> "unknown venue"
      [] tok = "Apple" -> "apple"
      [] OTHER -> tok

Lower(str) == [i \in 1..Len(str) |-> LowerTok(str[i])]

\* the lower-cased tokens in code point order
TokOrder ==
    <<"ac", "apple", "dc", "fox", "msg", "phish", "unknown artist", "unknown venue", "zebra", "|">>

TokRank(tok) == CHOOSE i \in 1..Len(TokOrder) : TokOrder[i] = tok

\* a < b on Python strings
RECURSIVE StrLess(_, _)
StrLess(a, b) ==
    IF a = <<>> THEN b # <<>>
    ELSE IF b = <<>> THEN FALSE
    ELSE IF a[1] = b[1] THEN StrLess(Tail(a), Tail(b))
    ELSE TokRank(a[1]) < TokRank(b[1])

\* lines 318-326: whether the sort key of c is less than that of d
KeyLess(c, d, sort_by) ==
    IF sort_by = <<"artist">> THEN StrLess(Lower(c.artist), Lower(d.artist))
    ELSE IF sort_by = <<"venue">>
    THEN StrLess(Lower(IF Truthy(c.venue) THEN c.venue ELSE <<>>),
                 Lower(IF Truthy(d.venue) THEN d.venue ELSE <<>>))
    ELSE c.date < d.date

\* one step of the stable sort: x goes after every element it is not before
RECURSIVE InsertSorted(_, _, _, _)
InsertSorted(sorted, x, sort_by, reverse) ==
    IF sorted = <<>> THEN <<x>>
    ELSE IF (IF reverse THEN KeyLess(sorted[1], x, sort_by) ELSE KeyLess(x, sorted[1], sort_by))
    THEN <<x>> \o sorted
    ELSE <<sorted[1]>> \o InsertSorted(Tail(sorted), x, sort_by, reverse)

RECURSIVE SortAcc(_, _, _, _, _)
SortAcc(concerts, i, sorted, sort_by, reverse) ==
    IF i > Len(concerts) THEN sorted
    ELSE SortAcc(concerts, i + 1, InsertSorted(sorted, concerts[i], sort_by, reverse), sort_by, reverse)

\* a mutant of SortConcerts: descending is the ascending order turned round,
\* so concerts with equal sort keys swap places
SortConcertsTurned(concerts, sort_by, sort_order) ==
    LET asc == SortAcc(concerts, 1, <<>>, sort_by, FALSE)
    IN  IF sort_order = <<"desc">> THEN [i \in 1..Len(asc) |-> asc[Len(asc) + 1 - i]]
        ELSE asc

\* a mutant of SortConcerts: descending unless the order is "asc"
SortConcertsDescDefault(concerts, sort_by, sort_order) ==
    SortAcc(concerts, 1, <<>>, sort_by, sort_order # <<"asc">>)

\* concerts.sort(key=..., reverse=(sort_order == "desc")): stable
SortConcerts(concerts, sort_by, sort_order) ==
    SortAcc(concerts, 1, <<>>, sort_by, sort_order = <<"desc">>)

\* list[a:b] with 0 <= a <= b
Slice(list, a, b) ==
    LET lo == IF a > Len(list) THEN Len(list) ELSE a
        hi == IF b > Len(list) THEN Len(list) ELSE b
    IN  [i \in 1..(hi - lo) |-> list[lo + i]]

\* a mutant of PageOf: the slice starts at page * per_page
PageOfNextPage(concerts, page, per_page) ==
    [ status |-> 200,
      total |-> Len(concerts),
      page |-> page,
      per_page |-> per_page,
      total_pages |-> (Len(concerts) + per_page - 1) \div per_page,
      results |-> Slice(concerts, page * per_page, page * per_page + per_page) ]

\* lines 328-339: the page returned for a sorted list
PageOf(concerts, page, per_page) ==
    [ status |-> 200,
      total |-> Len(concerts),
      page |-> page,
      per_page |-> per_page,
      total_pages |-> (Len(concerts) + per_page - 1) \div per_page,
      results |-> Slice(concerts, (page - 1) * per_page, (page - 1) * per_page + per_page) ]

\* raise HTTPException(status_code=...)
HttpError(code) ==
    [ status |-> code, total |-> 0, page |-> 0, per_page |-> 0, total_pages |-> 0, results |-> <<>> ]

---------------------------------------------------------------------------
(* The grouping run on its own: every input sequence up to MaxItems *)

MaxItems == 3

Phish == <<"Phish">>
\* 2026-11-02 10:00
Nov2Morning == 32 * SecondsPerDay + 36000
\* 2026-11-02 20:00
Nov2Evening == 32 * SecondsPerDay + 72000
\* 2026-10-21 00:00
Oct21 == 20 * SecondsPerDay

\* the (artist, date, venue) of the recordings the runs draw from: one
\* concert under every kind of venue, and one venue under every kind of key
Catalog ==
    { <<Phish, Nov2Morning, v>> : v \in { None, <<>>, UnknownVenue, <<"MSG">>, <<"Fox">> } }
    \cup { <<a, Nov2Morning, <<"MSG">>>> : a \in { None, <<"AC", Pipe, "DC">> } }
    \cup { <<Phish, d, <<"Fox">>>> : d \in { NoDate, Nov2Evening, Oct21 } }

\* the (total_tracks, total_size, downloads, location, description, source,
\* taper, lineage) of the recordings: ints >= 0 and optional strings, absent,
\* given, empty, given otherwise
Figures ==
    << <<0, 0, 0, None, None, None, None, None>>,
       <<12, 700, 3, <<"NYC">>, <<"night one">>, <<"SBD">>, <<"tom">>, <<"DAT">>>>,
       <<5, 150, 40, <<>>, <<>>, <<>>, <<>>, <<>>>>,
       <<1, 1, 1, <<"LA">>, <<"night two">>, <<"AUD">>, <<"ann">>, <<"FLAC">>>> >>

\* the figures of the i-th recording of a run, k shifting the assignment
FiguresOf(i, k) == Figures[((i + k) % Len(Figures)) + 1]

\* ArchiveItem(identifier, artist, date, venue, total_tracks, total_size,
\* downloads, location, description, source, taper, lineage); identifiers
\* are unique
ArchiveItem(id, c, n) ==
    [ identifier |-> id, artist |-> c[1], date |-> c[2], venue |-> c[3],
      total_tracks |-> n[1], total_size |-> n[2], downloads |-> n[3],
      location |-> n[4], description |-> n[5], source |-> n[6],
      taper |-> n[7], lineage |-> n[8] ]

GroupInit ==
    /\ g_pc = "in"
    /\ \E n \in 0..MaxItems : \E f \in [1..n -> Catalog] : \E k \in 1..Len(Figures) :
          g_items = [i \in 1..n |-> ArchiveItem(i, f[i], FiguresOf(i, k))]
    /\ g_concerts = <<>>
    /\ browse_cache = <<>> /\ now = 0 /\ inflight = <<>> /\ last = <<>>
    /\ started = 0 /\ ticks = 0 /\ cleared = FALSE
    /\ DownloadsOff /\ TasksOff
    /\ p_pc = "off" /\ p_req = <<>> /\ p_resp = <<>>
    /\ f_pc = "off" /\ f_in = <<>> /\ f_out = <<>>

GroupRun ==
    /\ g_pc = "in"
    /\ g_concerts' = group_recordings_by_concert(g_items)
    /\ g_pc' = "done"
    /\ UNCHANGED <<g_items, svars, pvars, fvars, dvars, tvars>>

GroupNext == GroupRun

SpecGroup == GroupInit /\ [][GroupNext]_vars

---------------------------------------------------------------------------
(* The service: requests, the upstream browse service, the clock *)

MaxRequests == 2
MaxInflight == 2
MaxTicks == 1

\* 2026-11-05 12:00:00
NowInit == 35 * SecondsPerDay + 43200

\* the clock steps: a second short of the TTL, and the TTL
TickSteps == { CACHE_DURATION - 1, CACHE_DURATION }

\* the defaults of the listing's Query(...) parameters, page size aside
ListDefaults ==
    [ query |-> None, date_range |-> None, artist |-> None, venue |-> None,
      page |-> 1, per_page |-> 2, sort_by |-> <<"date">>, sort_order |-> <<"desc">>,
      filter_by_concert_date |-> FALSE ]

\* the listing requests the clients send
ListRequests ==
    { [ListDefaults EXCEPT !.date_range = <<"7d">>],
      [ListDefaults EXCEPT !.date_range = <<"7d">>, !.filter_by_concert_date = TRUE],
      [ListDefaults EXCEPT !.page = 2],
      [ListDefaults EXCEPT !.per_page = 34] }

\* the concert keys the clients ask the detail of
DetailKeys ==
    { Phish \o <<Pipe, "2026-11-02">>,
      UnknownArtist \o <<Pipe, "2026-11-02">>,
      Phish \o <<Pipe, "2026-11-2">>,
      Phish \o <<Pipe, "unknown">>,
      <<"only-one-part">>,
      <<"AC", Pipe, "DC", Pipe, "2026-11-02">> }

\* what the browse service may return in "results"
UpstreamResults ==
    { << ArchiveItem(1, <<Phish, Nov2Morning, <<"MSG">>>>, Figures[2]),
         ArchiveItem(2, <<Phish, Oct21, <<"Fox">>>>, Figures[3]),
         ArchiveItem(3, <<None, Nov2Morning, <<"MSG">>>>, Figures[1]) >>,
      << ArchiveItem(4, <<Phish, Nov2Evening, <<"Fox">>>>, Figures[3]),
         ArchiveItem(5, <<Phish, NoDate, <<"Fox">>>>, Figures[2]) >> }

\* how a fetch can end: a 2xx answer with its results, a non-2xx answer, no
\* answer within the 30 s timeout
Answers ==
    { [ outcome |-> "ok", items |-> x ] : x \in UpstreamResults }
    \cup { [ outcome |-> "status", items |-> <<>> ], [ outcome |-> "timeout", items |-> <<>> ] }

\* a mutant of BrowseParams: four pages' worth of recordings is asked for
BrowseParamsQuad(r) ==
    [ query |-> r.query, date_range |-> r.date_range, artist |-> r.artist,
      venue |-> r.venue, page |-> r.page, per_page |-> r.per_page * 4,
      sort_by |-> r.sort_by, sort_order |-> r.sort_order ]

\* lines 237-247: the params sent to the browse service
BrowseParams(r) ==
    [ query |-> r.query, date_range |-> r.date_range, artist |-> r.artist,
      venue |-> r.venue, page |-> r.page, per_page |-> r.per_page * 3,
      sort_by |-> r.sort_by, sort_order |-> r.sort_order ]

\* browse_archive's Query(1, ge=1) and Query(20, ge=1, le=100): a request
\* outside them is answered 422
BrowseAccepts(bp) == bp.page >= 1 /\ bp.per_page >= 1 /\ bp.per_page <= 100

\* lines 381-384: the params of the detail path's fetch
DetailParams(artist) ==
    [ query |-> None, date_range |-> None, artist |-> artist, venue |-> None,
      page |-> 1, per_page |-> 100, sort_by |-> None, sort_order |-> None ]

NoRequest == [ kind |-> "none" ]

\* a new request can be taken
CanStart == started < MaxRequests /\ Len(inflight) < MaxInflight

\* the sequence without its i-th element
Remove(seq, i) == [j \in 1..(Len(seq) - 1) |-> IF j < i THEN seq[j] ELSE seq[j + 1]]

\* what a listing request met in the cache under its fingerprint when it started
SeenEntry(cache, i, t) ==
    IF i = 0 THEN [ present |-> FALSE, age |-> 0, data |-> <<>> ]
    ELSE [ present |-> TRUE, age |-> t - cache[i].timestamp, data |-> cache[i].data ]

\* lines 317-339 on the list `concerts`, which is the list the cache entry
\* holds: the sort is in place
ServeListing(cache, key, concerts, r) ==
    LET sorted == SortConcerts(concerts, r.sort_by, r.sort_order)
        i == CacheIndex(cache, key)
    IN  [ cache |-> IF i = 0 THEN cache ELSE [cache EXCEPT ![i].data = sorted],
          resp |-> PageOf(sorted, r.page, r.per_page) ]

\* lines 237-250 for each request the clients send, computed once
CacheKeys == [r \in ListRequests |-> get_cache_key(BrowseParams(r))]

\* line 270 for each answer of the browse service, computed once
GroupedResults == [x \in UpstreamResults |-> group_recordings_by_concert(x)]

\* browse_concerts up to its first suspension: a hit is answered at once, a
\* miss sends the fetch and awaits
ListStart(r) ==
    /\ CanStart
    /\ started' = started + 1
    /\ cleared' = FALSE
    /\ \E bp \in { BrowseParams(r) } : \E key \in { CacheKeys[r] } :
       \E i \in { CacheIndex(browse_cache, key) } :
       \E seen \in { SeenEntry(browse_cache, i, now) } :
           \/ /\ is_cache_valid(browse_cache, i, now)
              /\ \E out \in { ServeListing(browse_cache, key, browse_cache[i].data, r) } :
                     /\ browse_cache' = out.cache
                     /\ last' = [ kind |-> "list", r |-> r, seen |-> seen, fetches |-> 0,
                                  params |-> bp, cache_key |-> key, outcome |-> "none",
                                  raw_items |-> browse_cache[i].raw_items, at |-> now,
                                  prior |-> seen, swept |-> 0, resp |-> out.resp ]
              /\ UNCHANGED inflight
           \/ /\ ~is_cache_valid(browse_cache, i, now)
              /\ inflight' = Append(inflight,
                                [ kind |-> "list", r |-> r, seen |-> seen, fetches |-> 1,
                                  params |-> bp, cache_key |-> key ])
              /\ UNCHANGED <<browse_cache, last>>
    /\ UNCHANGED <<now, ticks>>

\* lines 266-315 and on: the 2xx answer of a listing miss
ListOk(q, items) ==
    LET r == q.r
        grouped == GroupedResults[items]
        concerts == IF Truthy(r.date_range) /\ r.filter_by_concert_date
                    THEN FilterByConcertDate(grouped, r.date_range, now)
                    ELSE grouped
        stored == CacheStore(browse_cache,
                    [ key |-> q.cache_key, data |-> concerts, timestamp |-> now,
                      raw_items |-> items ])
        swept == cleanup_cache(stored, now)
        out == ServeListing(swept, q.cache_key, concerts, r)
    IN  [ cache |-> out.cache, resp |-> out.resp, swept |-> Len(stored) - Len(swept) ]

\* a mutant of CacheOnFailure: the sweep runs on the way out
CacheOnFailureSwept(cache, t) == cleanup_cache(cache, t)

\* lines 341-346, and a CancelledError leaving the await of line 261: the
\* handler ends without a statement on browse_cache
CacheOnFailure(cache, t) == cache

\* browse_concerts from the end of its fetch
ListFetchReturn(s, a) ==
    /\ inflight[s].kind = "list"
    /\ LET q == inflight[s]
           prior == SeenEntry(browse_cache, CacheIndex(browse_cache, q.cache_key), now)
           done(resp, oc, raw, swept) ==
              last' = [ kind |-> "list", r |-> q.r, seen |-> q.seen, fetches |-> q.fetches,
                        params |-> q.params, cache_key |-> q.cache_key, outcome |-> oc,
                        raw_items |-> raw, at |-> now,
                        prior |-> prior, swept |-> swept, resp |-> resp ]
       IN  \/ /\ a.outcome = "ok" /\ BrowseAccepts(q.params)
              /\ Len(a.items) <= q.params.per_page
              /\ \E out \in { ListOk(q, a.items) } :
                    browse_cache' = out.cache /\ done(out.resp, "ok", a.items, out.swept)
           \/ /\ a.outcome = "ok" /\ BrowseAccepts(q.params)
              /\ Len(a.items) <= q.params.per_page
              \* the statement of lines 308-312 raises (no memory for the new
              \* entry): it stands in no try of its own, line 344 answers
              /\ done(HttpError(500), "store_failed", a.items, 0)
              /\ browse_cache' = CacheOnFailure(browse_cache, now)
           \/ /\ a.outcome = "ok" /\ ~BrowseAccepts(q.params)
              \* 422 from the browse service: raise_for_status, line 341
              /\ done(HttpError(502), "rejected", <<>>, 0)
              /\ browse_cache' = CacheOnFailure(browse_cache, now)
           \/ /\ a.outcome = "status"
              /\ done(HttpError(502), "status", <<>>, 0)
              /\ browse_cache' = CacheOnFailure(browse_cache, now)
           \/ /\ a.outcome = "timeout"
              \* httpx.TimeoutException is no HTTPStatusError: line 344
              /\ done(HttpError(500), "timeout", <<>>, 0)
              /\ browse_cache' = CacheOnFailure(browse_cache, now)
    /\ inflight' = Remove(inflight, s)
    /\ UNCHANGED <<now, started, ticks, cleared>>

\* the task of a request is cancelled: no response is written
NoResponse == HttpError(0)

\* a listing is cancelled while it awaits its fetch, line 261: CancelledError
\* is no Exception, so no except clause of the handler runs
ListCancel(s) ==
    /\ inflight[s].kind = "list"
    /\ LET q == inflight[s]
       IN  last' = [ kind |-> "list", r |-> q.r, seen |-> q.seen, fetches |-> q.fetches,
                     params |-> q.params, cache_key |-> q.cache_key,
                     outcome |-> "cancelled", raw_items |-> <<>>, at |-> now,
                     prior |-> SeenEntry(browse_cache,
                                  CacheIndex(browse_cache, q.cache_key), now),
                     swept |-> 0, resp |-> NoResponse ]
    /\ browse_cache' = CacheOnFailure(browse_cache, now)
    /\ inflight' = Remove(inflight, s)
    /\ UNCHANGED <<now, started, ticks, cleared>>

\* a mutant of ScanEntry: only the first concert of an entry is looked at
ScanEntryFirst(data, key) ==
    IF data # <<>> /\ data[1].concert_key = key THEN 1 ELSE 0

\* lines 361-364: the first concert of an entry with the key, 0 when none
ScanEntry(data, key) ==
    IF \E j \in 1..Len(data) : data[j].concert_key = key
    THEN CHOOSE j \in 1..Len(data) :
            data[j].concert_key = key /\ \A k \in 1..(j - 1) : data[k].concert_key # key
    ELSE 0

\* a mutant of ScanCache: the entry inserted last wins
ScanCacheLatest(cache, key, t) ==
    LET hits == { i \in 1..Len(cache) :
                    is_cache_valid(cache, i, t) /\ ScanEntry(cache[i].data, key) # 0 }
    IN  IF hits = {} THEN [ found |-> FALSE ]
        ELSE LET i == CHOOSE h \in hits : \A g \in hits : h >= g
             IN  [ found |-> TRUE, concert |-> cache[i].data[ScanEntry(cache[i].data, key)] ]

\* lines 356-367: the first valid entry, in dict order, that holds the key
ScanCache(cache, key, t) ==
    LET hits == { i \in 1..Len(cache) :
                    is_cache_valid(cache, i, t) /\ ScanEntry(cache[i].data, key) # 0 }
    IN  IF hits = {} THEN [ found |-> FALSE ]
        ELSE LET i == CHOOSE h \in hits : \A g \in hits : h <= g
             IN  [ found |-> TRUE, concert |-> cache[i].data[ScanEntry(cache[i].data, key)] ]

\* a mutant of KeyWellFormed: at least two parts
KeyAtLeastTwoParts(key) == Len(Split(key, Pipe)) >= 2

\* lines 374-376: the key splits into exactly two parts
KeyWellFormed(key) == Len(Split(key, Pipe)) = 2

\* whether some unexpired entry holds a concert with the key
InValidEntry(cache, key, t) ==
    \E i \in 1..Len(cache) :
        /\ t - cache[i].timestamp < CACHE_DURATION
        /\ \E j \in 1..Len(cache[i].data) : cache[i].data[j].concert_key = key

DetailError(code) == [ status |-> code, concert |-> NoRequest ]

\* get_concert_details up to its first suspension
DetailStart(key) ==
    /\ CanStart
    /\ started' = started + 1
    /\ cleared' = FALSE
    /\ LET scan == ScanCache(browse_cache, key, now)
           cached == InValidEntry(browse_cache, key, now)
       IN  \/ /\ scan.found
              /\ last' = [ kind |-> "detail", key |-> key, cached |-> cached, fetches |-> 0,
                           outcome |-> "none", raw_items |-> <<>>,
                           resp |-> [ status |-> 200, concert |-> scan.concert ] ]
              /\ UNCHANGED inflight
           \/ /\ ~scan.found /\ ~KeyWellFormed(key)
              /\ last' = [ kind |-> "detail", key |-> key, cached |-> cached, fetches |-> 0,
                           outcome |-> "none", raw_items |-> <<>>,
                           resp |-> DetailError(400) ]
              /\ UNCHANGED inflight
           \/ /\ ~scan.found /\ KeyWellFormed(key)
              /\ inflight' = Append(inflight,
                                [ kind |-> "detail", key |-> key, cached |-> cached,
                                  fetches |-> 1,
                                  params |-> DetailParams(Split(key, Pipe)[1]) ])
              /\ UNCHANGED last
    /\ UNCHANGED <<browse_cache, now, ticks>>

\* a mutant of FindConcert: the first concert of the regrouped list
FindFirstConcert(concerts, key) ==
    IF concerts = <<>> THEN 0 ELSE 1

\* line 417: next((c for c in concerts if c["concert_key"] == concert_key), None)
FindConcert(concerts, key) == ScanEntry(concerts, key)

\* lines 392-423: the 2xx answer of a detail miss
DetailOk(key, items) ==
    LET date_str == Split(key, Pipe)[2]
        target == Strptime(date_str)
        matching == SelectSeq(items, LAMBDA it :
                        it.date # NoDate /\ it.date \div SecondsPerDay = target \div SecondsPerDay)
        concerts == group_recordings_by_concert(matching)
        j == FindConcert(concerts, key)
    IN  IF target = ValueError THEN DetailError(400)
        ELSE IF matching = <<>> THEN DetailError(404)
        ELSE IF j = 0 THEN DetailError(404)
        ELSE [ status |-> 200, concert |-> concerts[j] ]

\* get_concert_details from the end of its fetch
DetailFetchReturn(s, a) ==
    /\ inflight[s].kind = "detail"
    /\ LET q == inflight[s]
           done(resp, raw) ==
              last' = [ kind |-> "detail", key |-> q.key, cached |-> q.cached,
                        fetches |-> q.fetches, outcome |-> a.outcome, raw_items |-> raw,
                        resp |-> resp ]
       IN  \/ /\ a.outcome = "ok" /\ Len(a.items) <= q.params.per_page
              /\ done(DetailOk(q.key, a.items), a.items)
           \/ /\ a.outcome \in { "status", "timeout" }
              \* both reach `except Exception`, line 429
              /\ done(DetailError(500), <<>>)
    /\ inflight' = Remove(inflight, s)
    /\ UNCHANGED <<browse_cache, now, started, ticks, cleared>>

\* a detail lookup is cancelled while it awaits its fetch, line 387
DetailCancel(s) ==
    /\ inflight[s].kind = "detail"
    /\ LET q == inflight[s]
       IN  last' = [ kind |-> "detail", key |-> q.key, cached |-> q.cached,
                     fetches |-> q.fetches, outcome |-> "cancelled", raw_items |-> <<>>,
                     resp |-> DetailError(0) ]
    /\ inflight' = Remove(inflight, s)
    /\ UNCHANGED <<browse_cache, now, started, ticks, cleared>>

\* a mutant of ClearCache: the requests in flight are cancelled with it
ClearCacheCancelling ==
    /\ browse_cache' = <<>>
    /\ last' = [ kind |-> "clear", cleared |-> Len(browse_cache) ]
    /\ cleared' = TRUE
    /\ inflight' = <<>>
    /\ UNCHANGED <<now, started, ticks>>

\* a mutant of ClearCache: only the expired entries go
ClearCacheExpired ==
    /\ browse_cache' = cleanup_cache(browse_cache, now)
    /\ last' = [ kind |-> "clear", cleared |-> Len(browse_cache) ]
    /\ cleared' = TRUE
    /\ UNCHANGED <<now, inflight, started, ticks>>

\* clear_cache: the global is bound to a new, empty dict
ClearCache ==
    /\ browse_cache' = <<>>
    /\ last' = [ kind |-> "clear", cleared |-> Len(browse_cache) ]
    /\ cleared' = TRUE
    /\ UNCHANGED <<now, inflight, started, ticks>>

\* time passes
Tick(d) ==
    /\ ticks < MaxTicks
    /\ now' = now + d
    /\ ticks' = ticks + 1
    /\ UNCHANGED <<browse_cache, inflight, last, started, cleared>>

Init ==
    /\ browse_cache = <<>>
    /\ now = NowInit
    /\ inflight = <<>>
    /\ last = NoRequest
    /\ started = 0
    /\ ticks = 0
    /\ cleared = FALSE
    /\ DownloadsOff /\ TasksOff
    /\ g_pc = "off" /\ g_items = <<>> /\ g_concerts = <<>>
    /\ p_pc = "off" /\ p_req = <<>> /\ p_resp = <<>>
    /\ f_pc = "off" /\ f_in = <<>> /\ f_out = <<>>

Next ==
    \/ \E r \in ListRequests : ListStart(r) /\ UNCHANGED <<gvars, pvars, fvars, dvars, tvars>>
    \/ \E s \in 1..Len(inflight), a \in Answers : ListFetchReturn(s, a) /\ UNCHANGED <<gvars, pvars, fvars, dvars, tvars>>
    \/ \E k \in DetailKeys : DetailStart(k) /\ UNCHANGED <<gvars, pvars, fvars, dvars, tvars>>
    \/ \E s \in 1..Len(inflight), a \in Answers : DetailFetchReturn(s, a) /\ UNCHANGED <<gvars, pvars, fvars, dvars, tvars>>
    \/ \E s \in 1..Len(inflight) : ListCancel(s) /\ UNCHANGED <<gvars, pvars, fvars, dvars, tvars>>
    \/ \E s \in 1..Len(inflight) : DetailCancel(s) /\ UNCHANGED <<gvars, pvars, fvars, dvars, tvars>>
    \/ ClearCache /\ UNCHANGED <<gvars, pvars, fvars, dvars, tvars>>
    \/ \E d \in TickSteps : Tick(d) /\ UNCHANGED <<gvars, pvars, fvars, dvars, tvars>>

Spec == Init /\ [][Next]_vars

---------------------------------------------------------------------------
(* The pagination of a sorted list on its own *)

MaxGroups == 25
MaxPage == 4
MaxPageSize == 11

PageInit ==
    /\ p_pc = "in"
    /\ p_req \in [ n : 0..MaxGroups, page : 1..MaxPage, per_page : 1..MaxPageSize ]
    /\ p_resp = <<>>
    /\ browse_cache = <<>> /\ now = 0 /\ inflight = <<>> /\ last = <<>>
    /\ started = 0 /\ ticks = 0 /\ cleared = FALSE
    /\ DownloadsOff /\ TasksOff
    /\ g_pc = "off" /\ g_items = <<>> /\ g_concerts = <<>>
    /\ f_pc = "off" /\ f_in = <<>> /\ f_out = <<>>

\* the sorted list is 1, 2, .., n: the group at zero-based index i is i + 1
PageRun ==
    /\ p_pc = "in"
    /\ p_resp' = PageOf([i \in 1..p_req.n |-> i], p_req.page, p_req.per_page)
    /\ p_pc' = "done"
    /\ UNCHANGED <<p_req, svars, gvars, fvars, dvars, tvars>>

PageNext == PageRun

SpecPage == PageInit /\ [][PageNext]_vars

---------------------------------------------------------------------------
(* The sort of the listing on its own *)

MaxSortLen == 3

\* the (artist, date, venue) of the recordings the sorted lists are grouped
\* from: artists and venues that differ in case only, two concerts of one day
SortCatalog ==
    { <<<<"zebra">>, Nov2Morning, None>>,
      <<<<"Apple">>, Oct21, <<"Fox">>>>,
      <<<<"apple">>, Nov2Evening, <<"MSG">>>>,
      <<Phish, Oct21, <<"fox">>>>,
      <<None, Nov2Morning, <<"MSG">>>> }

\* sort_by and sort_order are free strings: Query("date") and Query("desc")
SortFields == { <<"date">>, <<"artist">>, <<"venue">>, <<"title">> }
SortOrders == { <<"asc">>, <<"desc">>, <<"up">> }

SortInit ==
    /\ f_pc = "sort"
    /\ \E n \in 0..MaxSortLen : \E f \in [1..n -> SortCatalog] :
       \E sort_by \in SortFields, sort_order \in SortOrders :
          f_in = [ concerts |-> group_recordings_by_concert(
                                  [i \in 1..n |-> ArchiveItem(i, f[i], Figures[1])]),
                   sort_by |-> sort_by, sort_order |-> sort_order ]
    /\ f_out = <<>>
    /\ browse_cache = <<>> /\ now = 0 /\ inflight = <<>> /\ last = <<>>
    /\ started = 0 /\ ticks = 0 /\ cleared = FALSE
    /\ DownloadsOff /\ TasksOff
    /\ g_pc = "off" /\ g_items = <<>> /\ g_concerts = <<>>
    /\ p_pc = "off" /\ p_req = <<>> /\ p_resp = <<>>

\* lines 317-326
SortRun ==
    /\ f_pc = "sort"
    /\ f_out' = SortConcerts(f_in.concerts, f_in.sort_by, f_in.sort_order)
    /\ f_pc' = "done"
    /\ UNCHANGED <<f_in, svars, gvars, pvars, dvars, tvars>>

SortNext == SortRun

SpecSort == SortInit /\ [][SortNext]_vars

---------------------------------------------------------------------------
(* The fingerprint of two listing requests on its own *)

\* a sort_order that spells the end of its own pair and a venue pair after it
InjectVenue ==
    <<"desc", "\"", "]", ", ", "[", "\"", "venue", "\"", ", ", "\"", "y">>

\* the listing requests whose fingerprints are compared
KeyRequests ==
    { [ListDefaults EXCEPT !.query = q, !.artist = a, !.venue = v, !.page = pg,
                           !.sort_order = so, !.filter_by_concert_date = fl] :
        q \in { None, <<>> }, a \in { None, <<"x">> }, v \in { None, <<"y">> },
        pg \in { 1, 2 }, so \in { <<"desc">>, InjectVenue }, fl \in BOOLEAN }

\* orders in which the params dict could be filled: that of lines 237-246,
\* its reverse, and one that starts in the middle
SupplyOrders ==
    { [i \in 1..Len(ParamNames) |-> i],
      [i \in 1..Len(ParamNames) |-> Len(ParamNames) + 1 - i],
      [i \in 1..Len(ParamNames) |-> ((i + 2) % Len(ParamNames)) + 1] }

Permute(items, order) == [i \in 1..Len(items) |-> items[order[i]]]

KeyInit ==
    /\ f_pc = "key"
    /\ \E r1 \in KeyRequests, r2 \in KeyRequests, order \in SupplyOrders :
          f_in = [ r1 |-> r1, r2 |-> r2, order |-> order ]
    /\ f_out = <<>>
    /\ browse_cache = <<>> /\ now = 0 /\ inflight = <<>> /\ last = <<>>
    /\ started = 0 /\ ticks = 0 /\ cleared = FALSE
    /\ DownloadsOff /\ TasksOff
    /\ g_pc = "off" /\ g_items = <<>> /\ g_concerts = <<>>
    /\ p_pc = "off" /\ p_req = <<>> /\ p_resp = <<>>

\* lines 237-250 for both requests, the dict of the second filled in `order`
KeyRun ==
    /\ f_pc = "key"
    /\ f_out' = [ k1 |-> get_cache_key(BrowseParams(f_in.r1)),
                  k2 |-> CacheKeyOf(DropNone(Permute(ParamItems(BrowseParams(f_in.r2)),
                                                     f_in.order))) ]
    /\ f_pc' = "done"
    /\ UNCHANGED <<f_in, svars, gvars, pvars, dvars, tvars>>

KeyNext == KeyRun

SpecKey == KeyInit /\ [][KeyNext]_vars

---------------------------------------------------------------------------
(* The scan of the detail lookup on its own *)

MaxScanEntries == 3

\* the time of the lookup
ScanNow == NowInit + CACHE_DURATION

\* the ages of the entries: new, a second short of the TTL, the TTL
ScanAges == { 0, CACHE_DURATION - 1, CACHE_DURATION }

\* the entries a listing stores (lines 308-312) and sorts (lines 317-326)
ScanEntries ==
    { [ key |-> k, data |-> SortConcerts(GroupedResults[x], <<"date">>, <<"desc">>),
        timestamp |-> ScanNow - a, raw_items |-> x ] :
        k \in { CacheKeys[r] : r \in ListRequests }, x \in UpstreamResults, a \in ScanAges }

ScanInit ==
    /\ f_pc = "scan"
    /\ \E n \in 0..MaxScanEntries : \E c \in [1..n -> ScanEntries] : \E key \in DetailKeys :
          /\ \A i \in 1..n : \A j \in 1..n : c[i].key = c[j].key => i = j
          /\ f_in = [ cache |-> c, key |-> key ]
    /\ f_out = <<>>
    /\ browse_cache = <<>> /\ now = 0 /\ inflight = <<>> /\ last = <<>>
    /\ started = 0 /\ ticks = 0 /\ cleared = FALSE
    /\ DownloadsOff /\ TasksOff
    /\ g_pc = "off" /\ g_items = <<>> /\ g_concerts = <<>>
    /\ p_pc = "off" /\ p_req = <<>> /\ p_resp = <<>>

\* lines 355-367
ScanRun ==
    /\ f_pc = "scan"
    /\ f_out' = ScanCache(f_in.cache, f_in.key, ScanNow)
    /\ f_pc' = "done"
    /\ UNCHANGED <<f_in, svars, gvars, pvars, dvars, tvars>>

ScanNext == ScanRun

SpecScan == ScanInit /\ [][ScanNext]_vars

---------------------------------------------------------------------------
(* One listing miss on its own: the fetch, the grouping, the page *)

MaxFetchPageSize == 2
MaxFetchPage == 5

\* n recordings of Phish on d different days
FetchedItems(n, d) ==
    [i \in 1..n |-> ArchiveItem(i, <<Phish, ((i - 1) % d) * SecondsPerDay + 36000, None>>,
                                Figures[1])]

\* the request, and an answer of the browse service of at most the per_page
\* of lines 237-246 recordings
FetchPageInit ==
    /\ f_pc = "listing"
    /\ \E page \in 1..MaxFetchPage, per_page \in 1..MaxFetchPageSize :
       \E r \in { [ListDefaults EXCEPT !.page = page, !.per_page = per_page] } :
       \E n \in 0..BrowseParams(r).per_page : \E d \in 1..(IF n = 0 THEN 1 ELSE n) :
          f_in = [ r |-> r, items |-> FetchedItems(n, d) ]
    /\ f_out = <<>>
    /\ browse_cache = <<>> /\ now = 0 /\ inflight = <<>> /\ last = <<>>
    /\ started = 0 /\ ticks = 0 /\ cleared = FALSE
    /\ DownloadsOff /\ TasksOff
    /\ g_pc = "off" /\ g_items = <<>> /\ g_concerts = <<>>
    /\ p_pc = "off" /\ p_req = <<>> /\ p_resp = <<>>

\* lines 266-270 and 317-339
FetchPageRun ==
    /\ f_pc = "listing"
    /\ f_out' = ServeListing(<<>>, <<>>, group_recordings_by_concert(f_in.items), f_in.r).resp
    /\ f_pc' = "done"
    /\ UNCHANGED <<f_in, svars, gvars, pvars, dvars, tvars>>

FetchPageNext == FetchPageRun

SpecFetchPage == FetchPageInit /\ [][FetchPageNext]_vars

---------------------------------------------------------------------------
(* The background task manager (shared/background_tasks.py): one thread     *)
(* that submits, the worker threads, and threads that call cancel_task      *)

MaxTasks == 2
MaxWorkers == 2
MaxCancelCalls == 2

\* the service, the grouping, pagination and other runs are not part of
\* the run
AggregationOff ==
    /\ browse_cache = <<>> /\ now = 0 /\ inflight = <<>> /\ last = <<>>
    /\ started = 0 /\ ticks = 0 /\ cleared = FALSE
    /\ g_pc = "off" /\ g_items = <<>> /\ g_concerts = <<>>
    /\ p_pc = "off" /\ p_req = <<>> /\ p_resp = <<>>
    /\ f_pc = "off" /\ f_in = <<>> /\ f_out = <<>>

\* __init__ and start(): no task, an empty queue, every worker in its loop
TaskInit ==
    /\ t_tasks = <<>>
    /\ t_queue = <<>>
    /\ t_workers = [w \in 1..MaxWorkers |-> [ pc |-> "get", task |-> 0 ]]
    /\ t_last = [ kind |-> "none" ]
    /\ t_true = {} /\ t_ran = {} /\ t_count = 0
    /\ AggregationOff /\ DownloadsOff

\* submit_task, lines 128-141: the task is PENDING and in self.tasks
SubmitTask ==
    /\ Len(t_tasks) < MaxTasks
    /\ \A i \in 1..Len(t_tasks) : t_tasks[i].put
    /\ t_tasks' = Append(t_tasks, [ status |-> "pending", put |-> FALSE ])
    /\ UNCHANGED <<t_queue, t_workers, t_last, t_true, t_ran, t_count>>

\* submit_task, line 144: self.task_queue.put(task)
SubmitTaskPut ==
    /\ t_tasks # <<>> /\ ~t_tasks[Len(t_tasks)].put
    /\ t_tasks' = [t_tasks EXCEPT ![Len(t_tasks)].put = TRUE]
    /\ t_queue' = Append(t_queue, Len(t_tasks))
    /\ UNCHANGED <<t_workers, t_last, t_true, t_ran, t_count>>

\* _worker_loop, line 79: the worker takes the oldest task of the queue
WorkerGet(w) ==
    /\ t_workers[w].pc = "get" /\ t_queue # <<>>
    /\ t_workers' = [t_workers EXCEPT ![w] = [ pc |-> "execute", task |-> Head(t_queue) ]]
    /\ t_queue' = Tail(t_queue)
    /\ UNCHANGED <<t_tasks, t_last, t_true, t_ran, t_count>>

\* _execute_task, lines 91-93: whatever the status, it becomes RUNNING
ExecuteBegin(w) ==
    /\ t_workers[w].pc = "execute"
    /\ t_tasks' = [t_tasks EXCEPT ![t_workers[w].task].status = "running"]
    /\ t_workers' = [t_workers EXCEPT ![w].pc = "call"]
    /\ UNCHANGED <<t_queue, t_last, t_true, t_ran, t_count>>

\* _execute_task, lines 96-106: the function is called; it returns or raises
ExecuteCall(w, raises) ==
    /\ t_workers[w].pc = "call"
    /\ t_ran' = t_ran \cup { t_workers[w].task }
    /\ t_workers' = [t_workers EXCEPT ![w].pc = IF raises THEN "raised" ELSE "returned"]
    /\ UNCHANGED <<t_tasks, t_queue, t_last, t_true, t_count>>

\* _execute_task, lines 109-113 and 117-122, and back to the loop
ExecuteEnd(w) ==
    /\ t_workers[w].pc \in { "returned", "raised" }
    /\ t_tasks' = [t_tasks EXCEPT ![t_workers[w].task].status =
                      IF t_workers[w].pc = "raised" THEN "failed" ELSE "completed"]
    /\ t_workers' = [t_workers EXCEPT ![w] = [ pc |-> "get", task |-> 0 ]]
    /\ UNCHANGED <<t_queue, t_last, t_true, t_ran, t_count>>

\* cancel_task(task_<i - 1>), lines 159-167, under the lock
CancelTask(i) ==
    /\ t_count < MaxCancelCalls
    /\ t_count' = t_count + 1
    /\ LET known == i <= Len(t_tasks)
           before == IF known THEN t_tasks[i].status ELSE "absent"
       IN  IF before = "pending"
           THEN /\ t_tasks' = [t_tasks EXCEPT ![i].status = "cancelled"]
                /\ t_true' = t_true \cup { i }
                /\ t_last' = [ kind |-> "cancel", task |-> i, before |-> before,
                               result |-> TRUE ]
           ELSE /\ t_last' = [ kind |-> "cancel", task |-> i, before |-> before,
                               result |-> FALSE ]
                /\ UNCHANGED <<t_tasks, t_true>>
    /\ UNCHANGED <<t_queue, t_workers, t_ran>>

TaskNext ==
    \/ SubmitTask /\ UNCHANGED <<svars, gvars, pvars, fvars, dvars>>
    \/ SubmitTaskPut /\ UNCHANGED <<svars, gvars, pvars, fvars, dvars>>
    \/ \E w \in 1..MaxWorkers : WorkerGet(w) /\ UNCHANGED <<svars, gvars, pvars, fvars, dvars>>
    \/ \E w \in 1..MaxWorkers : ExecuteBegin(w) /\ UNCHANGED <<svars, gvars, pvars, fvars, dvars>>
    \/ \E w \in 1..MaxWorkers, raises \in BOOLEAN :
          ExecuteCall(w, raises) /\ UNCHANGED <<svars, gvars, pvars, fvars, dvars>>
    \/ \E w \in 1..MaxWorkers : ExecuteEnd(w) /\ UNCHANGED <<svars, gvars, pvars, fvars, dvars>>
    \/ \E i \in 1..MaxTasks : CancelTask(i) /\ UNCHANGED <<svars, gvars, pvars, fvars, dvars>>

SpecTasks == TaskInit /\ [][TaskNext]_vars

---------------------------------------------------------------------------
(* The download service (backend/download_service/main.py): start_download, *)
(* cancel_download and the process_download tasks on one event loop; a      *)
(* coroutine runs alone from one await to its next                          *)

MaxStarts == 2
MaxCancels == 1
MaxChunks == 1

\* the (user_id, archive_identifier, filename) the clients ask for
DownloadKeys == { <<"u1", "gd77", "t01.flac">>, <<"u1", "gd77", "t02.flac">> }

\* the rows that match the select of lines 190-196
RowsOf(rows, key) == { i \in 1..Len(rows) : rows[i].key = key }

\* the ORM's UPDATE at commit: an attribute set to the value it was loaded
\* with is no change and is not written
CommitStatus(rows, id, loaded, status) ==
    IF loaded = status THEN rows ELSE [rows EXCEPT ![id].status = status]

DownloadInit ==
    /\ d_rows = <<>> /\ d_reqs = <<>> /\ d_tasks = <<>>
    /\ d_last = [ kind |-> "none" ]
    /\ d_set = {}
    /\ d_count = [ starts |-> 0, cancels |-> 0 ]
    /\ AggregationOff /\ TasksOff

\* start_download up to the return of its select, lines 185-218: a row that
\* exists is answered at once, two of them make scalar_one_or_none raise
StartSelect(key) ==
    /\ d_count.starts < MaxStarts
    /\ d_count' = [d_count EXCEPT !.starts = @ + 1]
    /\ LET found == RowsOf(d_rows, key)
           answer(code, st) ==
              /\ d_last' = [ kind |-> "start", status |-> code, key |-> key,
                             found |-> Cardinality(found), row_status |-> st ]
              /\ UNCHANGED d_reqs
       IN  IF found = {}
           THEN /\ d_reqs' = Append(d_reqs, [ op |-> "start", key |-> key, pc |-> "commit",
                                              id |-> 0, loaded |-> "" ])
                /\ UNCHANGED d_last
           ELSE IF Cardinality(found) > 1 THEN answer(500, "")
           ELSE LET i == CHOOSE j \in found : TRUE
                IN  IF d_rows[i].status = "completed" THEN answer(200, "completed")
                    ELSE answer(400, d_rows[i].status)
    /\ UNCHANGED <<d_rows, d_tasks, d_set>>

\* start_download, lines 224-237: the INSERT of the new row at commit
StartCommit(s) ==
    /\ d_reqs[s].op = "start" /\ d_reqs[s].pc = "commit"
    /\ d_rows' = Append(d_rows, [ key |-> d_reqs[s].key, status |-> "pending" ])
    /\ d_reqs' = [d_reqs EXCEPT ![s].pc = "return", ![s].id = Len(d_rows) + 1]
    /\ UNCHANGED <<d_tasks, d_last, d_set, d_count>>

\* start_download, lines 238-257: after the refresh the task is created and
\* the new record returned
StartReturn(s) ==
    /\ d_reqs[s].op = "start" /\ d_reqs[s].pc = "return"
    /\ d_tasks' = Append(d_tasks, [ id |-> d_reqs[s].id, pc |-> "read",
                                    status |-> "downloading", loaded |-> "", chunks |-> 0 ])
    /\ d_last' = [ kind |-> "start", status |-> 200, key |-> d_reqs[s].key,
                   found |-> 0, row_status |-> "pending" ]
    /\ d_reqs' = Remove(d_reqs, s)
    /\ UNCHANGED <<d_rows, d_set, d_count>>

\* update_download_status, lines 529-534: the row is loaded
UpdateLoad(t) ==
    /\ d_tasks[t].pc = "read"
    /\ d_tasks' = [d_tasks EXCEPT ![t].pc = "write", ![t].loaded = d_rows[d_tasks[t].id].status]
    /\ UNCHANGED <<d_rows, d_reqs, d_last, d_set, d_count>>

\* update_download_status, lines 536-550: the status is set and committed;
\* process_download goes on to its stream, or is over
UpdateCommit(t) ==
    /\ d_tasks[t].pc = "write"
    /\ d_rows' = CommitStatus(d_rows, d_tasks[t].id, d_tasks[t].loaded, d_tasks[t].status)
    /\ d_tasks' = [d_tasks EXCEPT ![t].pc = IF d_tasks[t].status = "downloading"
                                            THEN "stream" ELSE "done"]
    /\ UNCHANGED <<d_reqs, d_last, d_set, d_count>>

\* process_download, lines 458-516, between two status updates: the row is
\* read (it is there), then a chunk arrives and the progress is reported,
\* or the stream ends, or something raises
ProcessStep(t, event) ==
    /\ d_tasks[t].pc = "stream"
    /\ event = "chunk" => d_tasks[t].chunks < MaxChunks
    /\ d_tasks' = [d_tasks EXCEPT
                      ![t].pc = "read",
                      ![t].chunks = IF event = "chunk" THEN @ + 1 ELSE @,
                      ![t].status = CASE event = "chunk" -> "downloading"
                                      [] event = "end" -> "completed"
                                      [] OTHER -> "failed"]
    /\ UNCHANGED <<d_rows, d_reqs, d_last, d_set, d_count>>

\* cancel_download up to the return of its select, lines 356-368
CancelSelect(id) ==
    /\ d_count.cancels < MaxCancels
    /\ d_count' = [d_count EXCEPT !.cancels = @ + 1]
    /\ IF id > Len(d_rows)
       THEN /\ d_last' = [ kind |-> "cancel", status |-> 404, id |-> id ]
            /\ UNCHANGED d_reqs
       ELSE IF d_rows[id].status \in { "completed", "failed" }
       THEN /\ d_last' = [ kind |-> "cancel", status |-> 400, id |-> id ]
            /\ UNCHANGED d_reqs
       ELSE /\ d_reqs' = Append(d_reqs, [ op |-> "cancel", key |-> d_rows[id].key,
                                          pc |-> "commit", id |-> id,
                                          loaded |-> d_rows[id].status ])
            /\ UNCHANGED d_last
    /\ UNCHANGED <<d_rows, d_tasks, d_set>>

\* cancel_download, lines 370-374: 'cancelled' is committed
CancelCommit(s) ==
    /\ d_reqs[s].op = "cancel"
    /\ d_rows' = CommitStatus(d_rows, d_reqs[s].id, d_reqs[s].loaded, "cancelled")
    /\ d_set' = IF d_reqs[s].loaded = "cancelled" THEN d_set ELSE d_set \cup { d_reqs[s].id }
    /\ d_last' = [ kind |-> "cancel", status |-> 200, id |-> d_reqs[s].id ]
    /\ d_reqs' = Remove(d_reqs, s)
    /\ UNCHANGED <<d_tasks, d_count>>

DownloadNext ==
    \/ \E key \in DownloadKeys : StartSelect(key) /\ UNCHANGED <<svars, gvars, pvars, fvars, tvars>>
    \/ \E s \in 1..Len(d_reqs) : StartCommit(s) /\ UNCHANGED <<svars, gvars, pvars, fvars, tvars>>
    \/ \E s \in 1..Len(d_reqs) : StartReturn(s) /\ UNCHANGED <<svars, gvars, pvars, fvars, tvars>>
    \/ \E t \in 1..Len(d_tasks) : UpdateLoad(t) /\ UNCHANGED <<svars, gvars, pvars, fvars, tvars>>
    \/ \E t \in 1..Len(d_tasks) : UpdateCommit(t) /\ UNCHANGED <<svars, gvars, pvars, fvars, tvars>>
    \/ \E t \in 1..Len(d_tasks), event \in { "chunk", "end", "error" } :
          ProcessStep(t, event) /\ UNCHANGED <<svars, gvars, pvars, fvars, tvars>>
    \/ \E id \in 1..(MaxStarts + 1) : CancelSelect(id) /\ UNCHANGED <<svars, gvars, pvars, fvars, tvars>>
    \/ \E s \in 1..Len(d_reqs) : CancelCommit(s) /\ UNCHANGED <<svars, gvars, pvars, fvars, tvars>>

SpecDownload == DownloadInit /\ [][DownloadNext]_vars

---------------------------------------------------------------------------
(* Properties of the service *)

SeqRange(seq) == { seq[i] : i \in 1..Len(seq) }

\* C2: a listing that met an entry of its fingerprint younger than the TTL is
\* answered from that entry (its groups, no fetch); one that met an entry as
\* old as the TTL or older is a miss and fetches
C2_CacheRoundTrip ==
    /\ (last.kind = "list" /\ last.seen.present) =>
          /\ last.seen.age < CACHE_DURATION =>
                /\ last.fetches = 0
                /\ last.resp.status = 200
                /\ last.resp.total = Len(last.seen.data)
                /\ \A i \in 1..Len(last.resp.results) :
                      last.resp.results[i] \in SeqRange(last.seen.data)
          /\ last.seen.age >= CACHE_DURATION => last.fetches = 1
    /\ \A s \in 1..Len(inflight) :
          inflight[s].kind = "list" =>
              /\ ~(inflight[s].seen.present /\ inflight[s].seen.age < CACHE_DURATION)
              /\ inflight[s].fetches = 1

\* a hit on an entry one second short of the TTL that returned groups
C2_Witness ==
    /\ last.kind = "list"
    /\ last.seen.present /\ last.seen.age = CACHE_DURATION - 1
    /\ last.fetches = 0
    /\ last.resp.results # <<>>

\* the concert date lies in [t - range, t]
InWindow(c, date_range, t) ==
    t - RangeDays(date_range) * SecondsPerDay <= c.date /\ c.date <= t

\* C3 as claimed: a listing counts and returns the groups of its recordings
\* restricted to the window exactly when the request itself sets
\* filter_by_concert_date and a date_range, on a hit as on a miss
C3_FilterFollowsRequest ==
    (last.kind = "list" /\ last.resp.status = 200) =>
        LET all == SeqRange(group_recordings_by_concert(last.raw_items))
            wanted == IF Truthy(last.r.date_range) /\ last.r.filter_by_concert_date
                      THEN { c \in all : InWindow(c, last.r.date_range, last.at) }
                      ELSE all
        IN  /\ last.resp.total = Cardinality(wanted)
            /\ \A i \in 1..Len(last.resp.results) : last.resp.results[i] \in wanted

\* C4: a detail lookup whose key is in an unexpired entry returns that concert
\* and fetches nothing
C4_DetailFromCache ==
    /\ (last.kind = "detail" /\ last.cached) =>
          /\ last.fetches = 0
          /\ last.resp.status = 200
          /\ last.resp.concert.concert_key = last.key
    /\ \A s \in 1..Len(inflight) : inflight[s].kind = "detail" => ~inflight[s].cached

\* a lookup served from the cache whose concert is not the first of its entry
C4_Witness ==
    /\ last.kind = "detail" /\ last.cached
    /\ last.fetches = 0 /\ last.resp.status = 200
    /\ \E i \in 1..Len(browse_cache) :
          /\ Len(browse_cache[i].data) >= 2
          /\ browse_cache[i].data[2] = last.resp.concert

\* C5: a detail lookup whose key is in no unexpired entry and does not split
\* into exactly two parts is answered 400, and nothing was fetched
C5_MalformedKey ==
    /\ (last.kind = "detail" /\ ~last.cached /\ Len(Split(last.key, Pipe)) # 2) =>
          last.resp.status = 400 /\ last.fetches = 0
    /\ \A s \in 1..Len(inflight) :
          (inflight[s].kind = "detail" /\ ~inflight[s].cached) =>
              Len(Split(inflight[s].key, Pipe)) = 2

\* the lookup of "only-one-part", refused before any fetch
C5_Witness ==
    /\ last.kind = "detail" /\ last.key = <<"only-one-part">>
    /\ last.resp.status = 400 /\ last.fetches = 0

\* C6 as claimed: a fetch that timed out or was answered non-2xx is answered
\* with an upstream (502/503/504) status, not the internal 500, after one try
C6_UpstreamFailureSurfaced ==
    (last.kind \in { "list", "detail" } /\ last.outcome \in { "status", "timeout", "rejected" }) =>
        last.resp.status \in { 502, 503, 504 } /\ last.fetches = 1

\* C7: a successful detail lookup returns the concert of the requested key,
\* and a lookup of a two-part key with a valid date that is in no unexpired
\* entry and in no group of the fetched recordings is answered 404
C7_DetailExactOrNotFound ==
    last.kind = "detail" =>
        /\ last.resp.status = 200 => last.resp.concert.concert_key = last.key
        /\ ( /\ ~last.cached
             /\ Len(Split(last.key, Pipe)) = 2
             /\ Strptime(Split(last.key, Pipe)[2]) # ValueError
             /\ last.outcome = "ok"
             /\ \A c \in SeqRange(group_recordings_by_concert(last.raw_items)) :
                   c.concert_key # last.key )
           => last.resp.status = 404

\* a lookup of a well-formed key, fetched, whose date has recordings of
\* other keys only: not found
C7_Witness ==
    /\ last.kind = "detail" /\ last.outcome = "ok"
    /\ last.key = UnknownArtist \o <<Pipe, "2026-11-02">>
    /\ \E i \in 1..Len(last.raw_items) : last.raw_items[i].date = Nov2Evening
    /\ last.resp.status = 404

\* C8 as claimed: a listing miss issues one fetch with per_page = 3 * s, and
\* when the browse service answers it the listing returns a page
C8_MissFetchesTripleAndSucceeds ==
    /\ \A s \in 1..Len(inflight) :
          inflight[s].kind = "list" =>
              inflight[s].fetches = 1 /\ inflight[s].params.per_page = 3 * inflight[s].r.per_page
    /\ (last.kind = "list" /\ last.fetches = 1) =>
          /\ last.params.per_page = 3 * last.r.per_page
          /\ last.outcome \in { "ok", "rejected" } => last.resp.status = 200

\* C9: the page holds the groups at zero-based indices (p-1)*s .. min(p*s,N)-1
\* in order, total is N and total_pages is ceil(N/s)
C9_Pagination ==
    p_pc = "done" =>
        LET N == p_req.n
            p == p_req.page
            sz == p_req.per_page
            first == (p - 1) * sz
            end == IF p * sz < N THEN p * sz ELSE N
        IN  /\ p_resp.total = N
            /\ p_resp.total_pages * sz >= N /\ (p_resp.total_pages - 1) * sz < N
            /\ Len(p_resp.results) = (IF first >= N THEN 0 ELSE end - first)
            /\ \A k \in 1..Len(p_resp.results) : p_resp.results[k] = first + k

\* 25 groups, page 2 of 10: indices 10..19, three pages
C9_Witness ==
    /\ p_pc = "done"
    /\ p_req = [ n |-> 25, page |-> 2, per_page |-> 10 ]
    /\ p_resp.results = [k \in 1..10 |-> 10 + k]
    /\ p_resp.total_pages = 3

\* the step is clear_cache returning
ClearStep ==
    /\ cleared' /\ last'.kind = "clear"
    /\ inflight' = inflight /\ now' = now /\ started' = started

\* the step takes a request that is not served from the cache: it goes on
\* to fetch, or it is a detail lookup refused as malformed
StartsUncached ==
    /\ started' = started + 1
    /\ \/ /\ Len(inflight') = Len(inflight) + 1
          /\ inflight'[Len(inflight')].fetches = 1
       \/ /\ inflight' = inflight
          /\ last'.kind = "detail" /\ ~last'.cached /\ last'.fetches = 0
          /\ last'.resp.status = 400

\* C15 as claimed: when clear_cache returns the store is empty, and the next
\* request to arrive, listing or detail, is not served from the cache
C15_NextRequestUncached ==
    [][ /\ ClearStep => browse_cache' = <<>>
        /\ (cleared /\ started' = started + 1) => StartsUncached ]_vars

\* C15 amended: when clear_cache returns the store is empty, and the next
\* request to arrive, if no request that was in flight has completed in
\* between, is not served from the cache
C15_NextRequestUncachedIfNoneCompleted ==
    [][ /\ ClearStep => browse_cache' = <<>>
        /\ (cleared /\ last.kind = "clear" /\ started' = started + 1) => StartsUncached ]_vars

\* a store of one entry or more was cleared, and the listing that arrived
\* next is in flight
C15_Witness ==
    /\ last.kind = "clear" /\ last.cleared >= 1
    /\ ~cleared
    /\ browse_cache = <<>>
    /\ inflight # <<>>
    /\ inflight[Len(inflight)].kind = "list"

\* the last request completed is a listing miss whose fetch was answered and
\* accepted
MissStored == last.kind = "list" /\ last.fetches = 1 /\ last.outcome = "ok"

\* the groups a listing request stores for the recordings fetched at time t
Expected(r, raw_items, t) ==
    LET all == SeqRange(GroupedResults[raw_items])
    IN  IF Truthy(r.date_range) /\ r.filter_by_concert_date
        THEN { c \in all : InWindow(c, r.date_range, t) }
        ELSE all

\* C16: a fingerprint has at most one entry; every listing in flight has
\* issued its fetch; and a listing miss that completes, whatever was stored
\* under its fingerprint meanwhile, is answered 200 and leaves under its
\* fingerprint the entry it wrote: its recordings, its groups, its time
C16_LastWriterWins ==
    /\ \A i \in 1..Len(browse_cache) : \A j \in 1..Len(browse_cache) :
          browse_cache[i].key = browse_cache[j].key => i = j
    /\ \A s \in 1..Len(inflight) : inflight[s].kind = "list" => inflight[s].fetches = 1
    /\ MissStored =>
          /\ last.resp.status = 200
          /\ \E i \in 1..Len(browse_cache) :
                /\ browse_cache[i].key = last.cache_key
                /\ browse_cache[i].raw_items = last.raw_items
                /\ browse_cache[i].timestamp = last.at
                /\ SeqRange(browse_cache[i].data) = Expected(last.r, last.raw_items, last.at)

\* two listings of one fingerprint both met no entry; the second to finish
\* found the unexpired entry of the first, with other groups, and replaced it
C16_Witness ==
    /\ MissStored
    /\ ~last.seen.present
    /\ last.prior.present /\ last.prior.age < CACHE_DURATION
    /\ Len(browse_cache) = 1
    /\ SeqRange(last.prior.data) # SeqRange(browse_cache[1].data)
    /\ browse_cache[1].raw_items = last.raw_items

\* C21: a listing miss whose write of the cache entry fails is answered 200
\* with the page of the groups it built, and no entry of it is left
C21_StoreFailureServesPage ==
    (last.kind = "list" /\ last.outcome = "store_failed") =>
        /\ last.resp.status = 200
        /\ SeqRange(last.resp.results) \subseteq Expected(last.r, last.raw_items, last.at)
        /\ last.resp.total = Cardinality(Expected(last.r, last.raw_items, last.at))
        /\ \A i \in 1..Len(browse_cache) :
              browse_cache[i].key = last.cache_key =>
                  browse_cache[i].timestamp < last.at \/ browse_cache[i].raw_items # last.raw_items

\* how a listing ends without an accepted answer
FailOutcomes == { "cancelled", "status", "timeout", "rejected" }

\* C17: the step in which a listing in flight is cancelled or fails leaves
\* browse_cache as it is, and so does the step in which a miss starts to await
C17_FailedMissLeavesCache ==
    [][ /\ ( /\ Len(inflight') < Len(inflight)
             /\ last'.kind = "list" /\ last'.outcome \in FailOutcomes )
           => browse_cache' = browse_cache
        /\ Len(inflight') > Len(inflight) => browse_cache' = browse_cache ]_vars

\* a listing that met the expired entry of its fingerprint was cancelled
\* while it awaited its fetch; the expired entry is still there
C17_Witness ==
    /\ last.kind = "list" /\ last.outcome = "cancelled"
    /\ last.seen.present /\ last.seen.age >= CACHE_DURATION
    /\ \E i \in 1..Len(browse_cache) :
          /\ browse_cache[i].key = last.cache_key
          /\ now - browse_cache[i].timestamp >= CACHE_DURATION

\* the entry holds the groups of its own recordings, as a request of its
\* fingerprint stores them at its timestamp
EntryWhole(e) ==
    /\ e.timestamp <= now
    /\ \E r \in ListRequests :
          /\ CacheKeys[r] = e.key
          /\ SeqRange(e.data) = Expected(r, e.raw_items, e.timestamp)
          /\ Len(e.data) = Cardinality(SeqRange(e.data))

\* C18: every entry of the store holds the groups of its own recordings at
\* its own timestamp, and a step that changes a field of an entry is the
\* store of one listing miss and sets all three fields from that request
C18_EntriesWrittenWhole ==
    /\ [](\A i \in 1..Len(browse_cache) : EntryWhole(browse_cache[i]))
    /\ [][ \A i \in 1..Len(browse_cache') :
              LET e == browse_cache'[i]
                  j == CacheIndex(browse_cache, e.key)
              IN  \/ /\ j # 0
                     /\ browse_cache[j].raw_items = e.raw_items
                     /\ browse_cache[j].timestamp = e.timestamp
                     /\ SeqRange(browse_cache[j].data) = SeqRange(e.data)
                  \/ /\ last'.kind = "list" /\ last'.outcome = "ok"
                     /\ e.key = last'.cache_key
                     /\ e.raw_items = last'.raw_items
                     /\ e.timestamp = last'.at
                     /\ SeqRange(e.data) = Expected(last'.r, last'.raw_items, last'.at) ]_vars

\* a listing that met the expired entry of its fingerprint replaced it, all
\* three fields, with what it fetched
C18_Witness ==
    /\ MissStored
    /\ last.seen.present /\ last.seen.age >= CACHE_DURATION
    /\ \E i \in 1..Len(browse_cache) :
          /\ browse_cache[i].key = last.cache_key
          /\ browse_cache[i].timestamp = now
          /\ SeqRange(browse_cache[i].data) # SeqRange(last.seen.data)

\* the step is the completion of a listing miss that stores
StoreStep ==
    /\ Len(inflight') < Len(inflight)
    /\ last'.kind = "list" /\ last'.fetches = 1 /\ last'.outcome = "ok"
    /\ last'.resp.status = 200

\* the keys and timestamps of the store, in dict order
Stamps(cache) == [i \in 1..Len(cache) |-> <<cache[i].key, cache[i].timestamp>>]

\* C19: an entry appears or is overwritten only in the completion of a
\* listing miss, under that listing's fingerprint; an entry disappears only
\* in clear_cache or, being expired, in the sweep of such a completion; and a
\* request that starts, hit or miss, and a detail lookup that completes leave
\* the keys and timestamps of the store as they are
C19_OnlyMissStoresOnlySweepDeletes ==
    [][ /\ \A i \in 1..Len(browse_cache') :
              LET e == browse_cache'[i]
                  j == CacheIndex(browse_cache, e.key)
              IN  (j = 0 \/ browse_cache[j].timestamp # e.timestamp
                         \/ browse_cache[j].raw_items # e.raw_items)
                  => (StoreStep /\ e.key = last'.cache_key)
        /\ \A j \in 1..Len(browse_cache) :
              CacheIndex(browse_cache', browse_cache[j].key) = 0
              => \/ ClearStep
                 \/ StoreStep /\ now - browse_cache[j].timestamp >= CACHE_DURATION
        /\ ( \/ started' = started + 1
             \/ Len(inflight') < Len(inflight) /\ last'.kind = "detail" )
           => Stamps(browse_cache') = Stamps(browse_cache) ]_vars

\* a listing miss completed and its sweep deleted the expired entry of
\* another fingerprint
C19_Witness ==
    /\ MissStored
    /\ last.swept = 1
    /\ ~last.prior.present
    /\ Len(browse_cache) = 1
    /\ browse_cache[1].key = last.cache_key

HitStep ==
    /\ started' = started + 1 /\ Len(inflight') = Len(inflight)
    /\ last'.kind = "list"

\* C23: a listing answered from the cache leaves browse_cache as it is, the
\* entry's list of groups in its order included; its page is the slice of
\* that list; and it is the page of the same request answered just before
C23_HitLeavesEntry ==
    [][ HitStep =>
          /\ last'.fetches = 0
          /\ browse_cache' = browse_cache
          /\ \E i \in 1..Len(browse_cache) :
                /\ browse_cache[i].key = last'.cache_key
                /\ last'.resp = PageOf(browse_cache[i].data, last'.r.page, last'.r.per_page)
          /\ (last.kind = "list" /\ last.resp.status = 200 /\ last.r = last'.r)
                => last'.resp = last.resp ]_vars

\* a listing was answered from an entry in which two groups have the same
\* date, the sort key, and the entry's list is as the request found it
C23_Witness ==
    /\ last.kind = "list" /\ last.fetches = 0 /\ last.seen.age > 0
    /\ Len(last.resp.results) = 2
    /\ last.resp.results[1].date = last.resp.results[2].date
    /\ \E i \in 1..Len(browse_cache) :
          /\ browse_cache[i].key = last.cache_key
          /\ browse_cache[i].data = last.seen.data
          /\ Len(browse_cache[i].data) = 3

\* the step is clear_cache returning, whatever it did to the requests in
\* flight
ClearReturns ==
    last'.kind = "clear" /\ cleared' /\ started' = started /\ now' = now

\* the concert keys an entry holds
KeysHeld(e) == { e.data[j].concert_key : j \in 1..Len(e.data) }

\* C26: clear_cache leaves the requests in flight as they are; a listing in
\* flight across it that completes first after it stores into the emptied
\* store, which then holds its entry and nothing of before the clear; and
\* while that entry is unexpired a listing of its fingerprint and a detail
\* lookup of a key it holds, arriving next, do not fetch
C26_StoreAfterClearLands ==
    /\ [](  (cleared /\ MissStored) =>
              \E i \in 1..Len(browse_cache) :
                  /\ browse_cache[i].key = last.cache_key
                  /\ browse_cache[i].raw_items = last.raw_items
                  /\ browse_cache[i].timestamp = last.at )
    /\ [][ /\ ClearReturns => inflight' = inflight
           /\ (StoreStep /\ cleared /\ last.kind = "clear") => Len(browse_cache') = 1
           /\ ( /\ cleared /\ MissStored /\ now - last.at < CACHE_DURATION
                /\ Len(inflight') = Len(inflight) + 1 )
              => LET q == inflight'[Len(inflight')]
                     e == browse_cache[CacheIndex(browse_cache, last.cache_key)]
                 IN  /\ q.kind = "list" => q.cache_key # last.cache_key
                     /\ q.kind = "detail" => q.key \notin KeysHeld(e) ]_vars

\* a listing met the expired entry of its fingerprint and went to fetch;
\* clear_cache discarded that entry; the fetch returned and the listing's
\* entry is the one entry of the store
C26_Witness ==
    /\ cleared /\ MissStored
    /\ last.seen.present /\ ~last.prior.present
    /\ Len(browse_cache) = 1
    /\ browse_cache[1].key = last.cache_key /\ browse_cache[1].timestamp = last.at

---------------------------------------------------------------------------
(* Properties of the grouping run *)

\* how many (group, member) places of the output hold the recording `id`
Occurrences(concerts, id) ==
    Cardinality({ cp \in { <<c, p>> : c \in 1..Len(concerts), p \in 1..MaxItems + 1 } :
                    /\ cp[2] <= Len(concerts[cp[1]].recordings)
                    /\ concerts[cp[1]].recordings[cp[2]].id = id })

\* the date segment (the last part) of the item's concert key does not parse
DateSegmentFails(item) ==
    LET parts == Split(extract_concert_key(item), Pipe)
    IN  Strptime(parts[Len(parts)]) = ValueError

\* the key of the item does not split into exactly two parts
KeySplitFails(item) == Len(Split(extract_concert_key(item), Pipe)) # 2

\* C1 as claimed: every input recording is in exactly one place of the
\* output, or in none and then the date segment of its key fails to parse
C1_OnlyDateDrops ==
    g_pc = "done" =>
        \A i \in 1..Len(g_items) :
            LET n == Occurrences(g_concerts, g_items[i].identifier)
            IN  n = 1 \/ (n = 0 /\ DateSegmentFails(g_items[i]))

\* C1 amended: every input recording is in exactly one place of the output,
\* or in none and then its key does not split into exactly two parts or the
\* date segment of its key fails to parse
C1_ExactlyOneOrDropped ==
    g_pc = "done" =>
        \A i \in 1..Len(g_items) :
            LET n == Occurrences(g_concerts, g_items[i].identifier)
            IN  n = 1 \/ (n = 0 /\ (KeySplitFails(g_items[i]) \/ DateSegmentFails(g_items[i])))

\* a run that emitted a group of two or more, dropped an undated recording
\* and dropped a recording whose artist holds the separator
C1_Witness ==
    /\ g_pc = "done"
    /\ \E c \in 1..Len(g_concerts) : g_concerts[c].total_recordings >= 2
    /\ \E i \in 1..Len(g_items) :
          /\ Occurrences(g_concerts, g_items[i].identifier) = 0
          /\ KeySplitFails(g_items[i]) /\ ~DateSegmentFails(g_items[i])

\* the recordings of the input that carry the key, in input order
BucketOf(items, key) == SelectSeq(items, LAMBDA it : extract_concert_key(it) = key)

\* positions of a bucket that hold a usable venue
UsablePositions(recs) == { i \in 1..Len(recs) : UsableVenue(recs[i].venue) }

VenueCount(recs, v) == Cardinality({ i \in 1..Len(recs) : recs[i].venue = v })

FirstPosition(recs, v) == CHOOSE i \in 1..Len(recs) :
    recs[i].venue = v /\ \A j \in 1..(i - 1) : recs[j].venue # v

\* C10: the venue of every emitted group is a usable venue of its bucket with
\* the highest count, the first in encounter order among those tied for it,
\* and None when the bucket holds no usable venue
C10_VenueResolution ==
    g_pc = "done" =>
        \A c \in 1..Len(g_concerts) :
            LET recs == BucketOf(g_items, g_concerts[c].concert_key)
                v == g_concerts[c].venue
            IN  IF UsablePositions(recs) = {} THEN v = None
                ELSE /\ \E i \in UsablePositions(recs) : recs[i].venue = v
                     /\ \A j \in UsablePositions(recs) :
                          \/ VenueCount(recs, recs[j].venue) < VenueCount(recs, v)
                          \/ /\ VenueCount(recs, recs[j].venue) = VenueCount(recs, v)
                             /\ FirstPosition(recs, v) <= FirstPosition(recs, recs[j].venue)

\* a group whose bucket met MSG before Fox, once each, and resolved to MSG
\* (Fox is first alphabetically)
C10_Witness ==
    /\ g_pc = "done"
    /\ \E c \in 1..Len(g_concerts) :
          LET recs == BucketOf(g_items, g_concerts[c].concert_key)
          IN  /\ g_concerts[c].venue = <<"MSG">>
              /\ VenueCount(recs, <<"MSG">>) = 1 /\ VenueCount(recs, <<"Fox">>) = 1
              /\ FirstPosition(recs, <<"MSG">>) < FirstPosition(recs, <<"Fox">>)


\* the identifiers of the members of an emitted group
MemberIds(concert) ==
    { concert.recordings[p].id : p \in 1..Len(concert.recordings) }

\* the sum of a figure over the input recordings from position i on whose
\* identifier is in ids
RECURSIVE InputTotal(_, _, _, _)
InputTotal(items, ids, field, i) ==
    IF i > Len(items) THEN 0
    ELSE (IF items[i].identifier \in ids THEN items[i][field] ELSE 0)
         + InputTotal(items, ids, field, i + 1)

\* the sum of a total over the emitted groups from position c on
RECURSIVE OutputTotal(_, _, _)
OutputTotal(concerts, field, c) ==
    IF c > Len(concerts) THEN 0
    ELSE concerts[c][field] + OutputTotal(concerts, field, c + 1)

\* the identifiers of the input recordings that are in some emitted group
EmittedIds ==
    { g_items[i].identifier : i \in { j \in 1..Len(g_items) :
          Occurrences(g_concerts, g_items[j].identifier) > 0 } }

\* C11: in every emitted group total_recordings is the number of members,
\* total_tracks, total_size and total_downloads are the sums of the members'
\* figures, and over all emitted groups the four totals add up to the count
\* and the sums of the input recordings that were not dropped
C11_TotalsAreSums ==
    g_pc = "done" =>
        /\ \A c \in 1..Len(g_concerts) :
              LET ids == MemberIds(g_concerts[c])
              IN  /\ g_concerts[c].total_recordings = Cardinality(ids)
                  /\ g_concerts[c].total_recordings = Len(g_concerts[c].recordings)
                  /\ g_concerts[c].total_tracks = InputTotal(g_items, ids, "total_tracks", 1)
                  /\ g_concerts[c].total_size = InputTotal(g_items, ids, "total_size", 1)
                  /\ g_concerts[c].total_downloads = InputTotal(g_items, ids, "downloads", 1)
        /\ OutputTotal(g_concerts, "total_recordings", 1) = Cardinality(EmittedIds)
        /\ OutputTotal(g_concerts, "total_tracks", 1)
             = InputTotal(g_items, EmittedIds, "total_tracks", 1)
        /\ OutputTotal(g_concerts, "total_size", 1)
             = InputTotal(g_items, EmittedIds, "total_size", 1)
        /\ OutputTotal(g_concerts, "total_downloads", 1)
             = InputTotal(g_items, EmittedIds, "downloads", 1)

\* a run that emitted a group of two members with different non-zero figures
\* beside a second group, and dropped a recording with non-zero figures
C11_Witness ==
    /\ g_pc = "done"
    /\ Len(g_concerts) >= 1
    /\ \E c \in 1..Len(g_concerts) :
          /\ g_concerts[c].total_recordings = 2
          /\ g_concerts[c].total_tracks = 17
          /\ g_concerts[c].total_size = 850
          /\ g_concerts[c].total_downloads = 43
    /\ \E i \in 1..Len(g_items) :
          /\ g_items[i].identifier \notin EmittedIds
          /\ g_items[i].total_tracks > 0


\* two recordings of the input that carry the same artist and are dated on
\* the same calendar day
SameArtistAndDay(x, y) ==
    /\ x.identifier # y.identifier
    /\ x.artist = y.artist
    /\ x.date # NoDate /\ y.date # NoDate
    /\ x.date \div SecondsPerDay = y.date \div SecondsPerDay

\* some emitted group holds both recordings
InOneGroup(x, y) ==
    \E c \in 1..Len(g_concerts) :
        { x.identifier, y.identifier } \subseteq MemberIds(g_concerts[c])

\* no two emitted groups share a concert key
KeysUnique ==
    \A c \in 1..Len(g_concerts) : \A d \in 1..Len(g_concerts) :
        g_concerts[c].concert_key = g_concerts[d].concert_key => c = d

\* every emitted key is artist|YYYY-MM-DD for the artist and the day of a
\* recording of the input, 'Unknown Artist' standing for an absent artist
KeysWellFormed ==
    \A c \in 1..Len(g_concerts) : \E i \in 1..Len(g_items) :
        /\ g_items[i].date # NoDate
        /\ g_concerts[c].concert_key =
              (IF g_items[i].artist \in { None, <<>> } THEN UnknownArtist ELSE g_items[i].artist)
              \o <<Pipe, DayName(g_items[i].date \div SecondsPerDay)>>

\* C14 as claimed: two recordings with the same artist and calendar day are
\* always in the same emitted group, no two emitted groups share a key, and
\* every emitted key has the form artist|YYYY-MM-DD
C14_SameDayOneGroup ==
    g_pc = "done" =>
        /\ \A i \in 1..Len(g_items) : \A j \in 1..Len(g_items) :
              SameArtistAndDay(g_items[i], g_items[j]) => InOneGroup(g_items[i], g_items[j])
        /\ KeysUnique
        /\ KeysWellFormed

\* C14 amended: two recordings with the same artist and calendar day are in
\* the same emitted group or, their key not splitting into exactly two parts,
\* both in none; no two emitted groups share a key, and every emitted key has
\* the form artist|YYYY-MM-DD
C14_SameDayOneGroupOrNone ==
    g_pc = "done" =>
        /\ \A i \in 1..Len(g_items) : \A j \in 1..Len(g_items) :
              SameArtistAndDay(g_items[i], g_items[j]) =>
                 \/ InOneGroup(g_items[i], g_items[j])
                 \/ /\ KeySplitFails(g_items[i]) /\ KeySplitFails(g_items[j])
                    /\ Occurrences(g_concerts, g_items[i].identifier) = 0
                    /\ Occurrences(g_concerts, g_items[j].identifier) = 0
        /\ KeysUnique
        /\ KeysWellFormed

\* a run that put a morning and an evening recording of one artist and day,
\* with different venues, in one group, beside a group of that day for an
\* absent artist
C14_Witness ==
    /\ g_pc = "done"
    /\ \E i \in 1..Len(g_items) : \E j \in 1..Len(g_items) :
          /\ SameArtistAndDay(g_items[i], g_items[j])
          /\ g_items[i].date # g_items[j].date
          /\ g_items[i].venue # g_items[j].venue
          /\ InOneGroup(g_items[i], g_items[j])
    /\ \E c \in 1..Len(g_concerts) : g_concerts[c].artist = UnknownArtist
    /\ Len(g_concerts) = 2

\* the first position of the input whose recording carries the key
FirstWithKey(items, key) ==
    CHOOSE i \in 1..Len(items) :
        /\ extract_concert_key(items[i]) = key
        /\ \A j \in 1..(i - 1) : extract_concert_key(items[j]) # key

\* an optional string field of the first recording, or what stands for it
\* when it is absent or empty
OrElse(value, default) == IF value = None \/ value = <<>> THEN default ELSE value

\* C24: the emitted groups stand in the order in which their keys first
\* appear in the input; the members of a group are the recordings of its key
\* in input order; location, description, source, taper and lineage are
\* those of the first recording of the key, an absent or empty description
\* read as "Live performance by {artist}", such a source as "Multiple
\* sources available", such a taper or lineage as None
C24_FirstSeenOrderAndBase ==
    g_pc = "done" =>
        /\ \A a \in 1..Len(g_concerts) : \A b \in 1..Len(g_concerts) :
              a < b => FirstWithKey(g_items, g_concerts[a].concert_key)
                         < FirstWithKey(g_items, g_concerts[b].concert_key)
        /\ \A c \in 1..Len(g_concerts) :
              LET key == g_concerts[c].concert_key
                  bucket == BucketOf(g_items, key)
                  first == g_items[FirstWithKey(g_items, key)]
              IN  /\ g_concerts[c].recordings
                        = [p \in 1..Len(bucket) |-> [id |-> bucket[p].identifier]]
                  /\ g_concerts[c].location = first.location
                  /\ g_concerts[c].description
                        = OrElse(first.description,
                                 <<"Live performance by ">> \o g_concerts[c].artist)
                  /\ g_concerts[c].source
                        = OrElse(first.source, <<"Multiple sources available">>)
                  /\ g_concerts[c].taper = OrElse(first.taper, None)
                  /\ g_concerts[c].lineage = OrElse(first.lineage, None)

\* two groups from three recordings, the first and the third in the first
\* group: its taper and location are those of the first recording, which
\* the third does not share; the second group's only recording has empty
\* strings, read as the fallbacks
C24_Witness ==
    /\ g_pc = "done" /\ Len(g_items) = 3 /\ Len(g_concerts) = 2
    /\ g_concerts[1].recordings = << [id |-> 1], [id |-> 3] >>
    /\ g_concerts[2].recordings = << [id |-> 2] >>
    /\ g_items[1].taper = <<"tom">> /\ g_items[3].taper = <<"ann">>
    /\ g_concerts[1].taper = <<"tom">> /\ g_concerts[1].location = <<"NYC">>
    /\ g_items[2].source = <<>>
    /\ g_concerts[2].source = <<"Multiple sources available">>
    /\ g_concerts[2].taper = None

\* the recordings of the input that have a date, in input order
Dated(items) == SelectSeq(items, LAMBDA it : it.date # NoDate)

\* C25: a recording without a date gets the key artist|unknown (the artist
\* read as "Unknown Artist" when absent) and is a member of no emitted
\* group; the run returns, and returns the groups it returns for the input
\* without its undated recordings
C25_UndatedNeverEmitted ==
    g_pc = "done" =>
        /\ \A i \in 1..Len(g_items) :
              g_items[i].date = NoDate =>
                  /\ extract_concert_key(g_items[i])
                        = OrElse(g_items[i].artist, UnknownArtist) \o <<Pipe, "unknown">>
                  /\ Occurrences(g_concerts, g_items[i].identifier) = 0
        /\ \A c \in 1..Len(g_concerts) :
              \A p \in 1..Len(g_concerts[c].recordings) :
                  \E i \in 1..Len(g_items) :
                      /\ g_items[i].identifier = g_concerts[c].recordings[p].id
                      /\ g_items[i].date # NoDate
        /\ g_concerts = group_recordings_by_concert(Dated(g_items))

\* an undated recording of Phish comes first, two dated ones of Phish of one
\* day follow: one group, of the second and the third
C25_Witness ==
    /\ g_pc = "done" /\ Len(g_items) = 3
    /\ g_items[1].date = NoDate /\ g_items[1].artist = Phish
    /\ g_items[2].artist = Phish
    /\ Len(g_concerts) = 1
    /\ g_concerts[1].recordings = << [id |-> 2], [id |-> 3] >>

---------------------------------------------------------------------------
(* Properties of the sort run *)

\* how often x is in the list
CountIn(list, x) == Cardinality({ i \in 1..Len(list) : list[i] = x })

\* the venue of a group with null as the empty string
VenueOrEmpty(c) == IF c.venue = None THEN <<>> ELSE c.venue

\* the key of c is before the key of d in the order of the requested field
Before(c, d, sort_by) ==
    IF sort_by = <<"artist">> THEN StrLess(Lower(c.artist), Lower(d.artist))
    ELSE IF sort_by = <<"venue">> THEN StrLess(Lower(VenueOrEmpty(c)), Lower(VenueOrEmpty(d)))
    ELSE c.date < d.date

\* C12: the sorted list is a permutation of the list it was given, and no
\* group comes before one whose key (the date for 'date' and any unrecognized
\* field, the lower-cased artist, or the lower-cased venue with null as "")
\* should precede it: descending for 'desc', ascending for any other order
C12_SortedPermutation ==
    f_pc = "done" =>
        /\ Len(f_out) = Len(f_in.concerts)
        /\ \A i \in 1..Len(f_in.concerts) :
              CountIn(f_out, f_in.concerts[i]) = CountIn(f_in.concerts, f_in.concerts[i])
        /\ \A i \in 1..Len(f_out) : \A j \in (i + 1)..Len(f_out) :
              IF f_in.sort_order = <<"desc">>
              THEN ~Before(f_out[i], f_out[j], f_in.sort_by)
              ELSE ~Before(f_out[j], f_out[i], f_in.sort_by)

\* artists ["zebra", "Apple"] sorted by artist, neither 'asc' nor 'desc',
\* came out as ["Apple", "zebra"]
C12_Witness ==
    /\ f_pc = "done"
    /\ f_in.sort_by = <<"artist">> /\ f_in.sort_order = <<"up">>
    /\ Len(f_in.concerts) = 2
    /\ f_in.concerts[1].artist = <<"zebra">> /\ f_in.concerts[2].artist = <<"Apple">>
    /\ f_out[1].artist = <<"Apple">> /\ f_out[2].artist = <<"zebra">>

---------------------------------------------------------------------------
(* Properties of the fingerprint run *)

\* the normalized parameters of a request: the recognized parameters that
\* are present, by name
Normalized(r) ==
    LET bp == BrowseParams(r)
        present == { i \in 1..Len(ParamNames) :
                       ParamNames[i] \in IntParams \/ bp[ParamNames[i]] # None }
    IN  [ name \in { ParamNames[i] : i \in present } |-> bp[name] ]

\* C13: two requests have the same fingerprint exactly when their normalized
\* parameters are the same, whatever the order the parameters were supplied in
C13_FingerprintOfParamSet ==
    f_pc = "done" =>
        ((f_out.k1 = f_out.k2) <=> (Normalized(f_in.r1) = Normalized(f_in.r2)))

\* two requests with the same parameters, one of them a string with quotes
\* and brackets, supplied in different orders, got the same fingerprint
C13_Witness ==
    /\ f_pc = "done"
    /\ f_in.order # [i \in 1..Len(ParamNames) |-> i]
    /\ f_in.r1.sort_order = InjectVenue /\ f_in.r1.query = <<>> /\ f_in.r1.venue = None
    /\ Normalized(f_in.r1) = Normalized(f_in.r2)
    /\ f_in.r1 # f_in.r2
    /\ f_out.k1 = f_out.k2

---------------------------------------------------------------------------
(* Properties of the scan run *)

\* the positions of the unexpired entries that hold a concert with the key
Holders(cache, key, t) ==
    { i \in 1..Len(cache) :
        /\ t - cache[i].timestamp < CACHE_DURATION
        /\ \E j \in 1..Len(cache[i].data) : cache[i].data[j].concert_key = key }

\* C22: the scan of the detail lookup finds a concert exactly when an entry
\* younger than the TTL holds one with the key (an entry as old as the TTL or
\* older is passed over), and the concert found is the one held by the
\* earliest-inserted of those entries
C22_ScanUnexpiredEarliest ==
    f_pc = "done" =>
        LET holders == Holders(f_in.cache, f_in.key, ScanNow)
        IN  /\ f_out.found <=> holders # {}
            /\ f_out.found =>
                  \E i \in holders :
                      /\ \A g \in holders : i <= g
                      /\ f_out.concert.concert_key = f_in.key
                      /\ f_out.concert \in SeqRange(f_in.cache[i].data)

\* the first entry holds the key and is as old as the TTL, the second and
\* the third are younger and hold it with different venues: the concert of
\* the second is found
C22_Witness ==
    /\ f_pc = "done" /\ Len(f_in.cache) = 3
    /\ Holders(f_in.cache, f_in.key, ScanNow) = { 2, 3 }
    /\ \E j \in 1..Len(f_in.cache[1].data) : f_in.cache[1].data[j].concert_key = f_in.key
    /\ f_out.found
    /\ f_out.concert \in SeqRange(f_in.cache[2].data)
    /\ f_out.concert \notin SeqRange(f_in.cache[3].data)

---------------------------------------------------------------------------
(* Properties of the listing miss on its own *)

\* C27: when the browse service returns no more recordings than the
\* per_page it was sent, the listing's total is at most three times the
\* request's per_page, its total_pages at most 3, and from page 4 on its
\* results are empty
C27_ThreePagesAtMost ==
    f_pc = "done" =>
        /\ f_out.status = 200
        /\ f_out.total <= 3 * f_in.r.per_page
        /\ f_out.total_pages <= 3
        /\ f_in.r.page >= 4 => f_out.results = <<>>

\* six recordings of six days for a page size of 2: three pages, and page 4
\* is empty
C27_Witness ==
    /\ f_pc = "done"
    /\ f_in.r.per_page = 2 /\ f_in.r.page = 4
    /\ f_out.total = 6 /\ f_out.total_pages = 3
    /\ f_out.results = <<>>

---------------------------------------------------------------------------
(* Properties of the download service *)

\* C28: a row in which cancel_download has committed 'cancelled' has the
\* status 'cancelled' from then on
C28_CancelledStays ==
    \A id \in d_set : d_rows[id].status = "cancelled"

\* C29: no two rows have the same (user, archive_identifier, filename), no
\* two process_download tasks are started for one row or one such triple,
\* and a start_download that finds the triple is answered with the record
\* when it is completed and refused with 400 otherwise
C29_OneRecordOneTask ==
    /\ \A i \in 1..Len(d_rows) : \A j \in 1..Len(d_rows) :
          d_rows[i].key = d_rows[j].key => i = j
    /\ \A a \in 1..Len(d_tasks) : \A b \in 1..Len(d_tasks) :
          d_rows[d_tasks[a].id].key = d_rows[d_tasks[b].id].key => a = b
    /\ (d_last.kind = "start" /\ d_last.found > 0) =>
          d_last.status = (IF d_last.row_status = "completed" THEN 200 ELSE 400)

---------------------------------------------------------------------------
(* Properties of the task manager *)

\* C30: cancel_task returns True only for a task that was PENDING, and a
\* task for which it has returned True is CANCELLED from then on and its
\* function is never called by a worker
C30_CancelledNeverRuns ==
    /\ (t_last.kind = "cancel" /\ t_last.result) => t_last.before = "pending"
    /\ \A i \in t_true : t_tasks[i].status = "cancelled" /\ i \notin t_ran
====
